---------------------------- MODULE Spec2Model ----------------------------
(***************************************************************************)
(* A model of the archive scripts: the per-directory config.yml            *)
(* bookkeeping (entry detection and its merge), the natural sort key of    *)
(* the table of contents, the build driver, the stages' error handling,   *)
(* the worker pool of the file-metadata stage, the MD5 list, the hashing   *)
(* of a file, the merge of the workspace, the generator of the table of    *)
(* contents, the pages of a directory with their text, the metadata        *)
(* addition from page.yml, the translation of the documents and the        *)
(* renaming of the files.                                                  *)
(*                                                                         *)
(* YAML scalars are modelled by their text: a size is "0", "1", ...; an    *)
(* empty list is "[]".  A directory is the sequence of the names leading   *)
(* to it from the base directory, so '.' is << >>.                         *)
(***************************************************************************)
EXTENDS Integers, Sequences, FiniteSets, TLC

VARIABLES
    \* ---- the archive on disk
    dirs,        \* the directories that exist (paths)
    content,     \* [FileSlots -> content of the file, or NoFile]
    pages,       \* the <name>_page.md files that exist: <<dir, page name>>
    config,      \* [AllDirs -> the config.yml of the directory]
    \* ---- the last run of entry detection
    changes,     \* the list detect_entry_main returned
    status,      \* "idle" before any run, "done", or "raised"
    written,     \* the directories whose config.yml the run saved
    runs,        \* completed detection runs since the tree was last touched
    \* ---- the sort of the table of contents
    names,       \* the names of the files of a directory, in config order
    sorted1,     \* what sorting them gave
    sorted2,     \* what sorting that once more gave
    filemeta,    \* [place -> the type and archived_date of the file entry]
    categories,  \* the categories FilesProcessor.process returned
    \* ---- the build driver
    args,        \* the command line and the build_config of digital.yml
    bpc,         \* where main is
    stage,       \* the place in the list of scripts
    log,         \* what the driver did so far, in order
    \* ---- the stages that walk the tree
    badpages,    \* the pages that cannot be read as UTF-8
    catalog,     \* how the last catalog run ended and what it had read
    links,       \* how the last update of the download links ended
    \* ---- the worker pool of update_metadata
    poolfiles,   \* the files list of the directory's config.yml
    pagetext,    \* [page name -> the description in the page, or NoFile]
    ppc,         \* where update_metadata is
    job,         \* [place in files_to_process -> where its worker is]
    held,        \* [place -> the page content its worker read]
    wrote,       \* the places whose worker wrote its page
    handed,      \* the places in the order the workers took them
    \* ---- the MD5 list
    scan,        \* the arguments: max_depth, fail_on_duplicates, remove_duplicates
    mdisk,       \* the files of the catalogued directories that are on disk
    md5run,      \* how the last run of md5_list_main ended and what it did
    \* ---- the hashing of a file
    hfiles,      \* [path -> the bytes of the file]
    hjob,        \* [call of calculate_md5 -> where it is and what it holds]
    \* ---- the merge of the workspace
    wsfiles,     \* the files os.walk gives, in order: what each one is
    wpc,         \* where process_workspace is: the file and the attempt
    wlog,        \* what process_workspace did so far, in order
    \* ---- the table of contents
    tocconf,     \* [directory -> its config.yml: kind, files, subdirs]
    tocignored,  \* the directories that is_ignored leaves out
    ga,          \* the Google Analytics data: None, or pages by falling views
    toctemplate, \* whether the README templates hold {{RECENT_UPDATES}}
    tocrun,      \* how the last run of the generator ended and what it did
    \* ---- the pages of one directory, with their text
    pgfiles,     \* the files list of the directory's config.yml
    pgpages,     \* [page name -> NoPage, or what the page was written from]
    pgmd,        \* the markdown file n.md: its marker and what was appended
    pgtemplates, \* the templates of .github/templates: which exist, the marker
    pgruns,      \* the runs of gen_page since the directory last changed
    \* ---- the metadata addition from page.yml
    adfiles,     \* the files list of the directory's config.yml, with the links
    adpages,     \* [page name -> its link and its archived date]
    adruns,      \* the runs of update_files so far
    \* ---- the translation of the documents
    trstart,     \* files-to-translate of config.json when translate_files began
    trfiles,     \* the list files_to_translate in memory
    trnext,      \* the place the for loop's iterator reads next, from 0
    trdone,      \* the paths gen.py translated, in order
    trsaved,     \* files-to-translate as saved in config.json
    trfailed,    \* whether a subprocess failed
    trpc,        \* where translate_files is
    \* ---- the renaming of the files of one directory
    rnbefore,    \* the names in the directory when os.walk listed it
    rndisk,      \* the files now: pairs of the name and the name it had then
    rntodo,      \* the names of the listing the loop has not come to yet
    rnpc         \* where rename_files_in_directory is

treeVars == << dirs, content, pages, config, changes, status, written, runs >>
sortVars == << names, sorted1, sorted2, filemeta, categories >>
buildVars == << args, bpc, stage, log >>
errVars == << badpages, catalog, links >>
poolVars == << poolfiles, pagetext, ppc, job, held, wrote, handed >>
md5Vars == << scan, mdisk, md5run >>
hashVars == << hfiles, hjob >>
mergeVars == << wsfiles, wpc, wlog >>
tocVars == << tocconf, tocignored, ga, toctemplate, tocrun >>
pageVars == << pgfiles, pgpages, pgmd, pgtemplates, pgruns >>
addVars == << adfiles, adpages, adruns >>
trVars == << trstart, trfiles, trnext, trdone, trsaved, trfailed, trpc >>
rnVars == << rnbefore, rndisk, rntodo, rnpc >>
lateVars == << pageVars, addVars, trVars, rnVars >>
restVars == << hashVars, mergeVars, tocVars, lateVars >>
vars == << treeVars, sortVars, buildVars, errVars, poolVars, md5Vars, restVars >>

RECURSIVE ProcessDirectoryRecursive(_, _), ProcessSubdirs(_, _, _, _)
RECURSIVE process_directory(_, _), process_subdirs(_, _, _, _)

Root == << >>

\* The count of repeated runs on an untouched tree is kept up to here.
MaxRuns == 2

-----------------------------------------------------------------------------
(* The universe of names.                                                  *)

\* Regular files the model lets come and go, with their directory.
FileSlots == { <<Root, "a.pdf">>, <<Root, "b.txt">>, <<(<<"books">>), "c.txt">> }

\* Directories that come and go, and those that are always there.
DynDirs == { <<"books">> }
StaticDirs == { <<".git">>, <<"tmp">>, <<"workspace_old">> }
AllDirs == {Root} \cup DynDirs \cup StaticDirs

\* Files of the base directory that are always there.
StaticFiles == { "README.md", ".gitignore", "site.conf" }

NoFile == "<absent>"
Contents == { "", "x", "yy" }

\* The contents the model lets a file take.
SlotContents(slot) ==
    CASE slot[2] = "a.pdf" -> { "", "x" }
      [] slot[2] = "b.txt" -> { "x" }
      [] slot[2] = "c.txt" -> { "x", "yy" }

\* sorted() of every name that can appear in a listing (code point order).
SortedNames == << ".git", ".gitignore", "README.md", "a.pdf", "a_page.md",
                  "b.txt", "b_page.md", "books", "c.txt", "c_page.md",
                  "config.yml", "site.conf", "tmp",
                  "workspace_old" >>

\* The most plain text files a directory holds for the worker pool, and
\* their names: f1.txt, f2.txt, ...
MaxPlain == 6
TextName(i) == "f" \o ToString(i)
TextFile(i) == TextName(i) \o ".txt"

\* os.path.splitext
splitext(filename) ==
    CASE filename = "a.pdf"      -> << "a", ".pdf" >>
      [] filename = "b.txt"      -> << "b", ".txt" >>
      [] filename = "c.txt"      -> << "c", ".txt" >>
      [] filename = "a.docx"     -> << "a", ".docx" >>
      [] filename = "n.html"     -> << "n", ".html" >>
      [] filename = "n.md"       -> << "n", ".md" >>
      [] filename = "p.png"      -> << "p", ".png" >>
      [] filename = "a_page.md"  -> << "a_page", ".md" >>
      [] filename = "b_page.md"  -> << "b_page", ".md" >>
      [] filename = "c_page.md"  -> << "c_page", ".md" >>
      [] filename = "README.md"  -> << "README", ".md" >>
      [] filename = "site.conf"  -> << "site", ".conf" >>
      [] filename = "config.yml" -> << "config", ".yml" >>
      [] OTHER                   ->
            IF \E i \in 1..MaxPlain : filename = TextFile(i)
            THEN << TextName(CHOOSE i \in 1..MaxPlain : filename = TextFile(i)),
                    ".txt" >>
            ELSE << filename, "" >>

startswith_dot(name) == name \in { ".git", ".gitignore" }
endswith_page_md(name) == name \in { "a_page.md", "b_page.md", "c_page.md" }
endswith_conf(name) == name \in { "site.conf" }
contains_workspace(name) == name \in { "workspace_old" }

\* The names the ignore patterns of digital.yml (or git) match.
IgnoredNames == { "tmp" }

\* hashlib.md5 of a content, and os.path.getsize as YAML text.
calculate_md5(c) ==
    CASE c = ""   -> "d41d8cd9"
      [] c = "x"  -> "9dd4e461"
      [] c = "yy" -> "2fb1c5cf"

getsize(c) ==
    CASE c = ""   -> "0"
      [] c = "x"  -> "1"
      [] c = "yy" -> "2"

\* Python truth of a YAML value: '', 0 and [] are false.
Truthy(v) == v \notin { "", "0", "[]" }

basename(d) == IF d = Root THEN "" ELSE d[Len(d)]
join(d, name) == Append(d, name)
parent(d) == SubSeq(d, 1, Len(d) - 1)

-----------------------------------------------------------------------------
(* The file system as the scripts see it.                                  *)

NoConfig == [ kind |-> "none", meta |-> [k \in {} |-> ""],
              files |-> << >>, subdirs |-> << >> ]
CorruptConfig == [ kind |-> "corrupt", meta |-> [k \in {} |-> ""],
                   files |-> << >>, subdirs |-> << >> ]

isdir(d) == d \in dirs

isfile(d, name) ==
    \/ << d, name >> \in FileSlots /\ content[<< d, name >>] # NoFile
    \/ << d, name >> \in pages
    \/ name = "config.yml" /\ d \in AllDirs /\ config[d].kind # "none"
    \/ d = Root /\ name \in StaticFiles

\* sorted(os.listdir(directory))
listdir(d) ==
    SelectSeq(SortedNames, LAMBDA n : isfile(d, n) \/ isdir(join(d, n)))

-----------------------------------------------------------------------------
(* Entry detection: config/hierarchy/detect_entry.py                       *)

\* EntryDetector.is_ignored: a pattern of digital.yml, or git, matches.
is_ignored(d) == \E i \in 1..Len(d) : d[i] \in IgnoredNames

should_include_file(d, filename) ==
    /\ filename \notin { "README.md", "LICENSE", "LICENSE.md", ".gitignore",
                         "config.yml", "CONTRIBUTING.md", "CODE_OF_CONDUCT.md" }
    /\ ~ startswith_dot(filename)
    /\ ~ endswith_page_md(filename)
    /\ ~ endswith_conf(filename)
    /\ ~ is_ignored(join(d, filename))

get_file_type(filename) ==
    LET ext == splitext(filename)[2]
    IN  CASE ext \in { ".html", ".md", ".htm" }                    -> "webpage"
          [] ext \in { ".txt", ".doc", ".docx", ".pdf", ".epub" }  -> "document"
          [] ext \in { ".jpg", ".jpeg", ".png", ".gif", ".bmp", ".webp" } -> "image"
          [] ext \in { ".mp4", ".avi", ".mov", ".wmv", ".flv", ".webm" }  -> "video"
          [] ext \in { ".mp3", ".wav", ".ogg", ".m4a" }             -> "audio"
          [] OTHER                                                  -> "other"

get_file_format(filename) ==
    LET ext == splitext(filename)[2]
    IN  CASE ext = ".pdf" -> "PDF Document"
          [] ext = ".txt" -> "Plain Text"
          [] ext = ".md"  -> "Markdown"
          [] ext = ".png" -> "PNG Image"
          [] OTHER        -> "Unknown Format"

\* The file_info detect_directory builds for one file of the listing.
file_info(d, item) ==
    [ name     |-> splitext(item)[1],
      filename |-> item,
      type     |-> get_file_type(item),
      format   |-> get_file_format(item),
      size     |-> getsize(content[<< d, item >>]),
      md5      |-> calculate_md5(content[<< d, item >>]) ]

\* The subdirectory test of detect_directory (line 148).
is_listed_subdir(d, item) ==
    /\ isdir(join(d, item))
    /\ ~ startswith_dot(item)
    /\ ~ is_ignored(join(d, item))
    /\ ~ contains_workspace(item)

detect_directory(d) ==
    LET listing == listdir(d)
        fnames  == SelectSeq(listing,
                     LAMBDA n : isfile(d, n) /\ should_include_file(d, n))
        subs    == SelectSeq(listing,
                     LAMBDA n : ~ (isfile(d, n) /\ should_include_file(d, n))
                                /\ is_listed_subdir(d, n))
    IN  [ kind    |-> "ok",
          meta    |-> [ name |-> basename(d), description |-> "",
                        curator |-> "", source |-> "", tags |-> "[]",
                        license |-> "" ],
          files   |-> [ i \in 1..Len(fnames) |-> file_info(d, fnames[i]) ],
          subdirs |-> subs ]

\* old_files = {f['filename']: f for f in old_config['files']}: the last entry
\* of a filename wins; the keys keep the order of their first appearance.
old_files_has(old_list, filename) ==
    \E i \in 1..Len(old_list) : old_list[i].filename = filename

old_files_get(old_list, filename) ==
    LET last == CHOOSE i \in 1..Len(old_list) :
                  /\ old_list[i].filename = filename
                  /\ \A j \in (i+1)..Len(old_list) : old_list[j].filename # filename
    IN  old_list[last]

old_files_keys(old_list) ==
    LET first(i) == \A j \in 1..(i-1) : old_list[j].filename # old_list[i].filename
        idx == SelectSeq([ i \in 1..Len(old_list) |-> i ], first)
    IN  [ i \in 1..Len(idx) |-> old_list[idx[i]].filename ]

\* merge_file with the preference turned round: a non-empty scanned value wins.
merge_file_prefers_scan(old_file, new_file) ==
    LET fresh == { k \in DOMAIN new_file : Truthy(new_file[k]) }
    IN  [ k \in (DOMAIN new_file) \cup (DOMAIN old_file) |->
            IF k \in fresh \/ k \notin DOMAIN old_file
            THEN new_file[k] ELSE old_file[k] ]

\* Lines 187-190: the scanned entry, with every non-empty old value put over it.
merge_file(old_file, new_file) ==
    LET kept == { k \in DOMAIN old_file : Truthy(old_file[k]) }
    IN  [ k \in (DOMAIN new_file) \cup kept |->
            IF k \in kept THEN old_file[k] ELSE new_file[k] ]

Change(kind, d, filename) == [ kind |-> kind, dir |-> d, filename |-> filename ]

RECURSIVE merged_files_appends_scanned(_, _)
\* merged_files with the append of the scanned entry outside the else branch:
\* a known file is listed twice, merged and as scanned.
merged_files_appends_scanned(old_list, new_list) ==
    IF new_list = << >>
    THEN << >>
    ELSE LET new_file == Head(new_list)
         IN  ( IF old_files_has(old_list, new_file.filename)
               THEN << merge_file(old_files_get(old_list, new_file.filename), new_file),
                       new_file >>
               ELSE << new_file >> )
             \o merged_files_appends_scanned(old_list, Tail(new_list))

\* Lines 176-195: the merged files list.
merged_files(old_list, new_list) ==
    [ i \in 1..Len(new_list) |->
        IF old_files_has(old_list, new_list[i].filename)
        THEN merge_file(old_files_get(old_list, new_list[i].filename), new_list[i])
        ELSE new_list[i] ]

\* scan_changes with the content compared by size instead of by md5.
scan_changes_by_size(old_list, new_list, d) ==
    LET changed(i) ==
            IF old_files_has(old_list, new_list[i].filename)
            THEN old_files_get(old_list, new_list[i].filename).size # new_list[i].size
            ELSE TRUE
        idx == SelectSeq([ i \in 1..Len(new_list) |-> i ], changed)
    IN  [ i \in 1..Len(idx) |->
            IF old_files_has(old_list, new_list[idx[i]].filename)
            THEN Change("Modified", d, new_list[idx[i]].filename)
            ELSE Change("Added", d, new_list[idx[i]].filename) ]

\* Lines 181-185 and 192-194: the changes of the first loop, in scan order.
scan_changes(old_list, new_list, d) ==
    LET changed(i) ==
            IF old_files_has(old_list, new_list[i].filename)
            THEN old_files_get(old_list, new_list[i].filename).md5 # new_list[i].md5
            ELSE TRUE
        idx == SelectSeq([ i \in 1..Len(new_list) |-> i ], changed)
    IN  [ i \in 1..Len(idx) |->
            IF old_files_has(old_list, new_list[idx[i]].filename)
            THEN Change("Modified", d, new_list[idx[i]].filename)
            ELSE Change("Added", d, new_list[idx[i]].filename) ]

\* Lines 197-200: the changes of the second loop.
deleted_changes(old_list, new_list, d) ==
    LET gone == SelectSeq(old_files_keys(old_list),
                  LAMBDA f : \A i \in 1..Len(new_list) : new_list[i].filename # f)
    IN  [ i \in 1..Len(gone) |-> Change("Deleted", d, gone[i]) ]

\* Lines 203-207: the directory-level fields.
merged_meta(old_meta, new_meta) ==
    LET kept == { k \in DOMAIN old_meta : Truthy(old_meta[k]) }
    IN  [ k \in (DOMAIN new_meta) \cup kept |->
            IF k \in kept THEN old_meta[k] ELSE new_meta[k] ]

\* merge_configs with subdirs treated like the other directory-level fields:
\* a non-empty old list is kept.
merge_configs_keeps_subdirs(old_config, new_config, d) ==
    IF old_config.kind = "none"
    THEN [ config |-> new_config, changes |-> << >> ]
    ELSE [ config  |-> [ kind    |-> "ok",
                         meta    |-> merged_meta(old_config.meta, new_config.meta),
                         files   |-> merged_files(old_config.files, new_config.files),
                         subdirs |-> IF old_config.subdirs # << >>
                                     THEN old_config.subdirs
                                     ELSE new_config.subdirs ],
           changes |-> scan_changes(old_config.files, new_config.files, d)
                       \o deleted_changes(old_config.files, new_config.files, d) ]

\* merge_configs: the merged config, and what it appends to self.changes.
merge_configs(old_config, new_config, d) ==
    IF old_config.kind = "none"
    THEN [ config |-> new_config, changes |-> << >> ]
    ELSE [ config  |-> [ kind    |-> "ok",
                         meta    |-> merged_meta(old_config.meta, new_config.meta),
                         files   |-> merged_files(old_config.files, new_config.files),
                         subdirs |-> new_config.subdirs ],
           changes |-> scan_changes(old_config.files, new_config.files, d)
                       \o deleted_changes(old_config.files, new_config.files, d) ]

\* process_directory_recursive on d, from the run state st =
\* [config, changes, status, written]; yaml.safe_load raises on a corrupt
\* config.yml and nothing up the recursion catches it.
ProcessDirectoryRecursive(d, st) ==
    IF st.status = "raised" \/ is_ignored(d)
    THEN st
    ELSE IF st.config[d].kind = "corrupt"
    THEN [ st EXCEPT !.status = "raised" ]
    ELSE LET new_config == detect_directory(d)
             m == merge_configs(st.config[d], new_config, d)
             saved == [ st EXCEPT !.config[d] = m.config,
                                  !.changes = st.changes \o m.changes,
                                  !.written = st.written \cup {d} ]
         IN  ProcessSubdirs(d, m.config.subdirs, 1, saved)

ProcessSubdirs(d, subdirs, i, st) ==
    IF i > Len(subdirs)
    THEN st
    ELSE ProcessSubdirs(d, subdirs, i + 1,
                        ProcessDirectoryRecursive(join(d, subdirs[i]), st))

\* detect_entry_main: a fresh detector, one recursion from the base directory.
detect_entry_main ==
    LET start == [ config |-> config, changes |-> << >>, status |-> "done",
                   written |-> {} ]
        end == ProcessDirectoryRecursive(Root, start)
    IN  /\ config' = end.config
        /\ changes' = end.changes
        /\ status' = end.status
        /\ written' = end.written
        /\ runs' = IF end.status = "raised" THEN 0
                   ELSE IF runs < MaxRuns THEN runs + 1 ELSE MaxRuns
        /\ UNCHANGED << dirs, content, pages >>

-----------------------------------------------------------------------------
(* Page generation: page/gen_page.py                                       *)

\* Anything that touches the tree ends the view of the last detection run.
Touched ==
    /\ runs' = 0
    /\ changes' = << >>
    /\ status' = "idle"
    /\ written' = {}

\* f"{name}_page.md"
page_filename(name) == name \o "_page.md"

\* generate_metadata_page for a file that is not markdown, on the run state
\* st = [config, pages, failed]: the page field it leaves in the entry.
page_field(entry) ==
    IF entry.type \notin { "document", "audio", "video", "webpage" }
    THEN entry.filename
    ELSE page_filename(entry.name)

needs_page(entry) ==
    entry.type \in { "document", "audio", "video", "webpage" }

set_page(entry) ==
    [ k \in (DOMAIN entry) \cup { "page" } |->
        IF k = "page" THEN page_field(entry) ELSE entry[k] ]

\* process_directory of gen_page.py: every entry gets its page, the config is
\* saved, then the listed subdirectories follow.
process_directory(d, st) ==
    IF st.failed \/ d \notin AllDirs \/ st.config[d].kind = "none"
    THEN st
    ELSE IF st.config[d].kind = "corrupt"
    THEN [ st EXCEPT !.failed = TRUE ]
    ELSE LET cfg == st.config[d]
             new_files == [ i \in 1..Len(cfg.files) |-> set_page(cfg.files[i]) ]
             made == { << d, page_filename(cfg.files[i].name) >> :
                         i \in { j \in 1..Len(cfg.files) : needs_page(cfg.files[j]) } }
             saved == [ st EXCEPT !.config[d].files = new_files,
                                  !.pages = st.pages \cup made ]
         IN  process_subdirs(d, cfg.subdirs, 1, saved)

process_subdirs(d, subdirs, i, st) ==
    IF i > Len(subdirs)
    THEN st
    ELSE process_subdirs(d, subdirs, i + 1,
                         process_directory(join(d, subdirs[i]), st))

\* gen_page_main: any exception ends the run and is swallowed.
gen_page_main ==
    LET end == process_directory(Root,
                 [ config |-> config, pages |-> pages, failed |-> FALSE ])
    IN  /\ config[Root].kind # "none"
        /\ config' = end.config
        /\ pages' = end.pages
        /\ Touched
        /\ UNCHANGED << dirs, content >>

-----------------------------------------------------------------------------
(* Directory metadata: ai/archive/gen_dir_meta.py                          *)

\* update_directory_metadata: a directory without a description gets the
\* generated fields (config.update(metadata)).
update_directory_metadata(d) ==
    /\ d \in dirs
    /\ config[d].kind = "ok"
    /\ ~ Truthy(config[d].meta["description"])
    /\ config' = [ config EXCEPT ![d].meta =
                     [ k \in DOMAIN @ |->
                         CASE k = "description" -> "summary"
                           [] k = "tags"        -> "[history]"
                           [] OTHER             -> @[k] ] ]
    /\ Touched
    /\ UNCHANGED << dirs, content, pages >>

\* The curator writes a description or the tags of a directory into its
\* config.yml by hand, or empties them.
CuratedFields == { "description", "tags" }
CuratedValues(k) == IF k = "tags" THEN { "[]", "[mine]" } ELSE { "", "mine" }

CuratorEdits(d, k, v) ==
    /\ d \in dirs
    /\ config[d].kind = "ok"
    /\ k \in CuratedFields
    /\ v \in CuratedValues(k)
    /\ config[d].meta[k] # v
    /\ config' = [ config EXCEPT ![d].meta[k] = v ]
    /\ Touched
    /\ UNCHANGED << dirs, content, pages >>

-----------------------------------------------------------------------------
(* What happens to the tree between the runs.                              *)

under(d, top) == Len(d) >= Len(top) /\ SubSeq(d, 1, Len(top)) = top

WriteFile(slot, c) ==
    /\ slot[1] \in dirs
    /\ c \in SlotContents(slot)
    /\ content[slot] # c
    /\ content' = [ content EXCEPT ![slot] = c ]
    /\ Touched
    /\ UNCHANGED << dirs, pages, config >>

RemoveFile(slot) ==
    /\ content[slot] # NoFile
    /\ content' = [ content EXCEPT ![slot] = NoFile ]
    /\ Touched
    /\ UNCHANGED << dirs, pages, config >>

MakeDir(d) ==
    /\ d \notin dirs
    /\ parent(d) \in dirs
    /\ dirs' = dirs \cup {d}
    /\ Touched
    /\ UNCHANGED << content, pages, config >>

RemoveDir(d) ==
    /\ d \in dirs
    /\ dirs' = { e \in dirs : ~ under(e, d) }
    /\ content' = [ slot \in FileSlots |->
                      IF under(slot[1], d) THEN NoFile ELSE content[slot] ]
    /\ pages' = { p \in pages : ~ under(p[1], d) }
    /\ config' = [ e \in AllDirs |-> IF under(e, d) THEN NoConfig ELSE config[e] ]
    /\ Touched

\* A crash in the middle of a save leaves a config.yml that does not parse.
TruncateConfig(d) ==
    /\ config[d].kind = "ok"
    /\ config' = [ config EXCEPT ![d] = CorruptConfig ]
    /\ Touched
    /\ UNCHANGED << dirs, content, pages >>

DeleteConfig(d) ==
    /\ config[d].kind = "corrupt"
    /\ config' = [ config EXCEPT ![d] = NoConfig ]
    /\ Touched
    /\ UNCHANGED << dirs, content, pages >>

-----------------------------------------------------------------------------
(* The natural sort key: toc/utils.py, and the sort of                     *)
(* FilesProcessor.process: toc/content_processors.py                       *)
(*                                                                         *)
(* A name is a sequence of characters.  "(1)" .. "(10)" stand for the      *)
(* circled numerals U+2460 .. U+2469, "F2" for the full-width digit two    *)
(* U+FF12 and "^2" for the superscript two U+00B2.                         *)

\* The longest name and the characters the model draws names from.
MaxNameLen == 2
Alphabet == { "x", "X", "1", "2", "(10)", "F2", "^2" }

Names == UNION { [ 1..n -> Alphabet ] : n \in 1..MaxNameLen }

\* The lists of names the model sorts: up to two files.
FileLists == { << >> } \cup { << a >> : a \in Names }
                 \cup { << a, b >> : a, b \in Names }

AsciiDigits == { "0", "1", "2", "3", "4", "5", "6", "7", "8", "9" }
CircledNumerals == { "(1)", "(2)", "(3)", "(4)", "(5)", "(6)", "(7)", "(8)",
                     "(9)", "(10)" }

\* numeral_map, with int() applied.
numeral_map(c) ==
    CASE c = "(1)" -> 1 [] c = "(2)" -> 2 [] c = "(3)" -> 3 [] c = "(4)" -> 4
      [] c = "(5)" -> 5 [] c = "(6)" -> 6 [] c = "(7)" -> 7 [] c = "(8)" -> 8
      [] c = "(9)" -> 9 [] c = "(10)" -> 10

\* str.isdigit of one character: the decimal digits of every script and the
\* characters that only have the digit property, such as superscripts.
IsDecimalChar(c) == c \in AsciiDigits \cup { "F2" }
IsDigitChar(c) == IsDecimalChar(c) \/ c \in { "^2" }

DecimalValue(c) ==
    CASE c = "0" -> 0 [] c = "1" -> 1 [] c = "2" -> 2 [] c = "3" -> 3
      [] c = "4" -> 4 [] c = "5" -> 5 [] c = "6" -> 6 [] c = "7" -> 7
      [] c = "8" -> 8 [] c = "9" -> 9 [] c = "F2" -> 2

\* ord() and str.lower() of one character.
Ord(c) ==
    CASE c = "1" -> 49 [] c = "2" -> 50 [] c = "X" -> 88 [] c = "x" -> 120
      [] c = "^2" -> 178 [] c = "(10)" -> 9321 [] c = "F2" -> 65298

Lower(c) == IF c = "X" THEN "x" ELSE c

isdigit(text) == text # << >> /\ \A i \in 1..Len(text) : IsDigitChar(text[i])

\* int(text) of a text that int() accepts.
RECURSIVE IntOf(_)
IntOf(text) ==
    IF text = << >> THEN 0
    ELSE 10 * IntOf(SubSeq(text, 1, Len(text) - 1)) + DecimalValue(text[Len(text)])

\* re.split('([0-9]+|[circled numerals])', s): the texts between the matches
\* at the odd places (from 1), the matches at the even places.
RECURSIVE re_split(_, _, _)
re_split(s, i, text) ==
    IF i > Len(s)
    THEN << text >>
    ELSE IF s[i] \in AsciiDigits
    THEN LET stop == CHOOSE j \in i..Len(s) :
                       /\ \A k \in i..j : s[k] \in AsciiDigits
                       /\ (j = Len(s) \/ s[j + 1] \notin AsciiDigits)
         IN  << text, SubSeq(s, i, stop) >> \o re_split(s, stop + 1, << >>)
    ELSE IF s[i] \in CircledNumerals
    THEN << text, << s[i] >> >> \o re_split(s, i + 1, << >>)
    ELSE re_split(s, i + 1, Append(text, s[i]))

\* One element of a key: an int or a str; int() raises ValueError on a text
\* that is all digits by isdigit() but not decimal.
IntKey(n) == [ t |-> "int", n |-> n, s |-> << >> ]
StrKey(text) == [ t |-> "str", n |-> 0, s |-> text ]
ValueError == [ t |-> "ValueError", n |-> 0, s |-> << >> ]

convert(text) ==
    IF Len(text) = 1 /\ text[1] \in CircledNumerals
    THEN IntKey(numeral_map(text[1]))
    ELSE IF isdigit(text)
    THEN IF \A i \in 1..Len(text) : IsDecimalChar(text[i])
         THEN IntKey(IntOf(text))
         ELSE ValueError
    ELSE StrKey([ i \in 1..Len(text) |-> Lower(text[i]) ])

natural_sort_key(s) ==
    LET parts == re_split(s, 1, << >>)
    IN  [ i \in 1..Len(parts) |-> convert(parts[i]) ]

KeyRaises(s) ==
    \E i \in 1..Len(natural_sort_key(s)) : natural_sort_key(s)[i] = ValueError

\* Python's < on two str: by code point, a proper prefix first.
StrLess(a, b) ==
    \E i \in 1..(Len(a) + 1) :
        /\ i <= Len(b)
        /\ \A j \in 1..(i - 1) : j <= Len(a) /\ a[j] = b[j]
        /\ (i = Len(a) + 1 \/ Ord(a[i]) < Ord(b[i]))

\* Python's < on two keys (lists): the first place where they differ decides,
\* and an int against a str there raises TypeError.
Differ(k1, k2) == { i \in 1..Len(k1) : i <= Len(k2) /\ k1[i] # k2[i] }
FirstDiffer(k1, k2) == CHOOSE i \in Differ(k1, k2) : \A j \in Differ(k1, k2) : i <= j

KeyCompare(k1, k2) ==
    IF Differ(k1, k2) = {}
    THEN IF Len(k1) < Len(k2) THEN "lt" ELSE IF Len(k1) = Len(k2) THEN "eq" ELSE "gt"
    ELSE LET a == k1[FirstDiffer(k1, k2)]
             b == k2[FirstDiffer(k1, k2)]
         IN  IF a.t # b.t THEN "TypeError"
             ELSE IF a.t = "int"
             THEN IF a.n < b.n THEN "lt" ELSE "gt"
             ELSE IF StrLess(a.s, b.s) THEN "lt" ELSE "gt"

\* One step of a stable sort: e goes after the entries that are not greater.
RECURSIVE insert_by_key_before_equal(_, _)
insert_by_key_before_equal(list, e) ==
    IF list = << >>
    THEN << e >>
    ELSE IF KeyCompare(natural_sort_key(e.name),
                       natural_sort_key(list[Len(list)].name)) \in { "lt", "eq" }
    THEN Append(insert_by_key_before_equal(SubSeq(list, 1, Len(list) - 1), e),
                list[Len(list)])
    ELSE Append(list, e)

RECURSIVE insert_by_key(_, _)
insert_by_key(list, e) ==
    IF list = << >>
    THEN << e >>
    ELSE IF KeyCompare(natural_sort_key(e.name),
                       natural_sort_key(list[Len(list)].name)) = "lt"
    THEN Append(insert_by_key(SubSeq(list, 1, Len(list) - 1), e), list[Len(list)])
    ELSE Append(list, e)

RECURSIVE insertion_sort(_)
insertion_sort(files) ==
    IF files = << >> THEN << >>
    ELSE insert_by_key(insertion_sort(SubSeq(files, 1, Len(files) - 1)),
                       files[Len(files)])

NotSorted == [ state |-> "none", list |-> << >> ]

\* sorted(files, key=lambda x: natural_sort_key(x['name'])): the keys are
\* computed first (a ValueError ends it), and a sort cannot finish without
\* comparing the neighbours of its result, so two keys that cannot be compared
\* end it with a TypeError.
sorted_files(files) ==
    IF \E i \in 1..Len(files) : KeyRaises(files[i].name)
    THEN [ state |-> "ValueError", list |-> << >> ]
    ELSE IF \E i, j \in 1..Len(files) :
               KeyCompare(natural_sort_key(files[i].name),
                          natural_sort_key(files[j].name)) = "TypeError"
    THEN [ state |-> "TypeError", list |-> << >> ]
    ELSE [ state |-> "ok", list |-> insertion_sort(files) ]

\* The file entries of a config: the name and the place in the files list.
FileEntries(list) == [ i \in 1..Len(list) |-> [ name |-> list[i], place |-> i ] ]

\* The six types of the categories dict, in the order of its keys.
FileTypes == << "document", "image", "video", "audio", "webpage", "other" >>

\* A file entry without an 'archived_date' key.
NoDate == "<no archived_date>"

\* file_info.get('archived_date', '0000-12-31')
archived_date(meta) ==
    IF meta.archived_date = NoDate THEN "0000-12-31" ELSE meta.archived_date

\* The dates the file entries carry, and the year each one lies in.
ArchivedDates == { "2020-01-01", "2020-06-30", "1999-05-05" }

Year(date) ==
    CASE date = "2020-01-01" -> "2020"
      [] date = "2020-06-30" -> "2020"
      [] date = "1999-05-05" -> "1999"
      [] OTHER -> "0000"

\* The bucket an entry is appended to: the only one there is in a type.
bucket_by_year(meta) == Year(archived_date(meta))
bucket(meta) == "0000"

NoCategories == << >>

\* The loop of FilesProcessor.process over the sorted files: each is appended,
\* with its date, to a bucket of the dict of its type.
categorize(files, meta) ==
    [ t \in { FileTypes[k] : k \in DOMAIN FileTypes } |->
        [ b \in {"0000"} \cup { bucket(meta[files[i].place]) :
                                  i \in { k \in 1..Len(files) : meta[files[k].place].type = t } } |->
            LET here == SelectSeq(files, LAMBDA f : /\ meta[f.place].type = t
                                                    /\ bucket(meta[f.place]) = b)
            IN  [ i \in 1..Len(here) |->
                    [ place |-> here[i].place,
                      archived_date |-> archived_date(meta[here[i].place]) ] ] ] ]

\* FilesProcessor.process sorts the files of a directory and categorizes them.
SortFiles ==
    /\ sorted1.state = "none"
    /\ sorted1' = sorted_files(FileEntries(names))
    /\ categories' = IF sorted1'.state = "ok"
                      THEN categorize(sorted1'.list, filemeta)
                      ELSE NoCategories
    /\ UNCHANGED << names, sorted2, filemeta >>

\* The sorted list is sorted once more.
SortAgain ==
    /\ sorted1.state = "ok"
    /\ sorted2.state = "none"
    /\ sorted2' = sorted_files(sorted1.list)
    /\ UNCHANGED << names, sorted1, filemeta, categories >>

-----------------------------------------------------------------------------
(* The build driver: workflows/build_documents.py                          *)

Toc == "table_of_contents"

\* The same list with the MD5 list ahead of the catalog.
get_document_scripts_md5_first(generate_wordcloud) ==
    << "File renaming", "Entry detection", "MD5 list generation",
       "Catalog generation", "Visitor count update", "Page generation",
       "File meta generation", "Metadata addition",
       "Independence info generation", "Text embedding",
       "Directory meta generation" >>
    \o (IF generate_wordcloud THEN << "Wordcloud generation" >> ELSE << >>)
    \o << "Search index generation" >>

get_document_scripts(generate_wordcloud) ==
    << "File renaming", "Entry detection", "Catalog generation",
       "MD5 list generation", "Visitor count update", "Page generation",
       "File meta generation", "Metadata addition",
       "Independence info generation", "Text embedding",
       "Directory meta generation" >>
    \o (IF generate_wordcloud THEN << "Wordcloud generation" >> ELSE << >>)
    \o << "Search index generation" >>

get_webpage_scripts(generate_wordcloud) ==
    << "File renaming", "Entry detection", "Catalog generation",
       "MD5 list generation", "Visitor count update", "Page generation",
       "Search exclude addition", "File meta generation", "Metadata addition",
       "Directory meta generation" >>
    \o (IF generate_wordcloud THEN << "Wordcloud generation" >> ELSE << >>)
    \o << "Second metadata addition", "Search index generation" >>

\* The keys of get_all_available_scripts; "" stands for no --script.
ScriptChoices ==
    { "file_renaming", "entry_detection", "catalog_generation",
      "md5_list_generation", "visitor_count_update", "page_generation",
      "file_meta_generation", "metadata_addition", "config_from_page",
      "independence_info_generation", "text_embedding",
      "directory_meta_generation", "wordcloud_generation",
      "search_exclude_addition", "search_index_generation", Toc }

BuildArgs ==
    [ type : { "document", "webpage" }, script : ScriptChoices \cup { "" },
      no_clean : BOOLEAN, generate_wordcloud : BOOLEAN ]

\* Line 196: the list of a full build.
scripts ==
    IF args.type = "document"
    THEN get_document_scripts(args.generate_wordcloud)
    ELSE get_webpage_scripts(args.generate_wordcloud)

Event(ev, name) == [ ev |-> ev, name |-> name ]

\* main up to the choice between one script and the full build (lines 159-196).
BuildStart ==
    /\ bpc = "main"
    /\ IF args.script # ""
       THEN /\ bpc' = "single"
            /\ log' = (IF args.no_clean THEN << >> ELSE << Event("clean", "") >>)
                      \o << Event("call", args.script) >>
            /\ stage' = stage
       ELSE /\ bpc' = "loop"
            /\ log' = IF args.no_clean THEN << >> ELSE << Event("clean", "") >>
            /\ stage' = 1
    /\ UNCHANGED args

\* Lines 183-193: the one script returns, or raises and the driver exits.
SingleReturns ==
    /\ bpc = "single"
    /\ bpc' = "returned"
    /\ log' = Append(log, Event("return", args.script))
    /\ UNCHANGED << args, stage >>

SingleRaises ==
    /\ bpc = "single"
    /\ bpc' = "exit1"
    /\ log' = Append(log, Event("raise", args.script))
    /\ UNCHANGED << args, stage >>

\* Lines 199-202: the next script of the list is called.
CallStage ==
    /\ bpc = "loop"
    /\ stage <= Len(scripts)
    /\ bpc' = "in_stage"
    /\ log' = Append(log, Event("call", scripts[stage]))
    /\ UNCHANGED << args, stage >>

\* Line 203: it returned.
StageReturns ==
    /\ bpc = "in_stage"
    /\ bpc' = "loop"
    /\ stage' = stage + 1
    /\ log' = Append(log, Event("return", scripts[stage]))
    /\ UNCHANGED args

\* The same, going on with the next script of the list.
StageRaises_goes_on ==
    /\ bpc = "in_stage"
    /\ bpc' = "loop"
    /\ stage' = stage + 1
    /\ log' = Append(log, Event("raise", scripts[stage]))
    /\ UNCHANGED args

\* Lines 204-206: it raised an Exception: logged, sys.exit(1).
StageRaises ==
    /\ bpc = "in_stage"
    /\ bpc' = "exit1"
    /\ log' = Append(log, Event("raise", scripts[stage]))
    /\ UNCHANGED << args, stage >>

\* The script itself called sys.exit(1): SystemExit passes the except clause.
StageExits ==
    /\ bpc = "in_stage"
    /\ bpc' = "exit1"
    /\ log' = Append(log, Event("exit", scripts[stage]))
    /\ UNCHANGED << args, stage >>

\* Lines 208-211: after the loop, the table of contents.
CallToc ==
    /\ bpc = "loop"
    /\ stage > Len(scripts)
    /\ bpc' = "toc"
    /\ log' = Append(log, Event("call", Toc))
    /\ UNCHANGED << args, stage >>

TocReturns ==
    /\ bpc = "toc"
    /\ bpc' = "returned"
    /\ log' = Append(log, Event("return", Toc))
    /\ UNCHANGED << args, stage >>

TocRaises ==
    /\ bpc = "toc"
    /\ bpc' = "exit1"
    /\ log' = Append(log, Event("raise", Toc))
    /\ UNCHANGED << args, stage >>

-----------------------------------------------------------------------------
(* The stages that walk the tree: config/catalog.py and file/rename.py     *)

max_depth == 2

\* The largest --max-depth of the model, and the chain of nested directories
\* d1, d1/d2, ... that reaches one level below what any scanner reads.
MaxDepthArg == 2
MaxCatFiles == 2
ChainDir(k) == [ i \in 1..k |-> "d" \o ToString(i) ]

\* os.walk from the base directory, top down.  Among the directories of one
\* level only "books" can hold a config.yml, so their order does not show.
WalkOrder ==
    << Root, << ".git" >>, << "books" >>, << "docs" >>, << "tmp" >>,
       << "workspace_old" >> >>
    \o [ k \in 1..(MaxDepthArg + 1) |-> ChainDir(k) ]
walk == SelectSeq(WalkOrder, LAMBDA d : d \in dirs)

NoCatalog == [ state |-> "none", read |-> {} ]
NoLinks == [ state |-> "none", configs |-> {}, failed |-> {},
             updated |-> {}, pagefailed |-> {} ]

RECURSIVE find_config_files(_, _)
RECURSIVE update_download_links(_, _), update_download_links_gives_up(_, _)

\* find_config_files from the i-th directory of the walk on: st.read holds
\* the catalog so far; the first config.yml that does not load ends the
\* process (sys.exit(1)).
find_config_files(i, st) ==
    IF i > Len(walk)
    THEN st
    ELSE LET d == walk[i]
         IN  IF "docs" \in { d[k] : k \in 1..Len(d) } \/ Len(d) > scan.max_depth
             THEN find_config_files(i + 1, st)
             ELSE IF config[d].kind = "none"
             THEN find_config_files(i + 1, st)
             ELSE IF config[d].kind = "corrupt"
             THEN [ st EXCEPT !.state = "exit1" ]
             ELSE find_config_files(i + 1,
                    [ st EXCEPT !.read = @ \cup
                        { << d, config[d].meta["description"] >> } ])

catalog_main ==
    /\ catalog' = find_config_files(1, [ state |-> "returned", read |-> {} ])
    /\ UNCHANGED << treeVars, badpages, links, md5Vars >>

\* The pages the entries of a config name (page_to_filename).
page_paths(d) ==
    { << d, config[d].files[i].page >> :
        i \in { j \in 1..Len(config[d].files) : "page" \in DOMAIN config[d].files[j] } }

exists(path) == isfile(path[1], path[2])

\* One config.yml of update_download_links (lines 42-97).
update_one_config(d, st) ==
    IF config[d].kind = "corrupt"
    THEN [ st EXCEPT !.failed = @ \cup {d} ]
    ELSE [ st EXCEPT !.configs = @ \cup {d},
                     !.updated = @ \cup { p \in page_paths(d) :
                                            exists(p) /\ p \notin badpages },
                     !.pagefailed = @ \cup { p \in page_paths(d) :
                                               exists(p) /\ p \in badpages } ]

\* The same walk, ended by the first config.yml that does not load.
update_download_links_gives_up(i, st) ==
    IF i > Len(walk)
    THEN st
    ELSE IF config[walk[i]].kind = "none"
    THEN update_download_links_gives_up(i + 1, st)
    ELSE IF config[walk[i]].kind = "corrupt"
    THEN update_one_config(walk[i], st)
    ELSE update_download_links_gives_up(i + 1, update_one_config(walk[i], st))

\* update_download_links from the i-th directory of the walk on.
update_download_links(i, st) ==
    IF i > Len(walk)
    THEN st
    ELSE IF config[walk[i]].kind = "none"
    THEN update_download_links(i + 1, st)
    ELSE update_download_links(i + 1, update_one_config(walk[i], st))

\* rename_main: no name of the model holds a character that is renamed, so
\* rename_files_in_directory leaves the tree; then the links.
rename_main ==
    /\ links' = update_download_links(1, [ NoLinks EXCEPT !.state = "returned" ])
    /\ UNCHANGED << treeVars, badpages, catalog, md5Vars >>

\* A page is saved in an encoding that is not UTF-8.
CorruptPage(p) ==
    /\ p \in pages \ badpages
    /\ badpages' = badpages \cup {p}
    /\ catalog' = NoCatalog
    /\ links' = NoLinks
    /\ UNCHANGED << treeVars, md5Vars >>

\* A step on the tree ends the view of the last catalog and links runs.
StagesForgotten ==
    /\ catalog' = NoCatalog
    /\ links' = NoLinks
    /\ badpages' = badpages \cap pages'
    /\ UNCHANGED md5Vars

-----------------------------------------------------------------------------
(* The MD5 list: config/get_md5_list.py                                    *)
(*                                                                         *)
(* A dict is the sequence of its values in insertion order; the key of an  *)
(* entry of the catalog is its name.                                       *)

NoMd5Run == [ state |-> "none", read |-> {}, catalog |-> << >>,
              written |-> << >>, removed |-> {} ]

DefaultScan == [ max_depth |-> max_depth, fail_on_duplicates |-> FALSE,
                 remove_duplicates |-> FALSE ]

RECURSIVE dict_update(_, _), md5_find_config_files(_, _)

\* The file names of the catalogued directories, sorted, and their digests.
Md5Names == << "x.txt", "y.txt" >>
Digests == { "m1", "m2" }

KeysOf(dict) == { dict[i].name : i \in 1..Len(dict) }

\* dict[key] = value: a new key goes to the end, a known key keeps its place.
dict_set(dict, value) ==
    IF value.name \in KeysOf(dict)
    THEN [ i \in 1..Len(dict) |->
             IF dict[i].name = value.name THEN value ELSE dict[i] ]
    ELSE Append(dict, value)

dict_update(dict, other) ==
    IF other = << >>
    THEN dict
    ELSE dict_update(dict_set(dict, Head(other)), Tail(other))

\* find_md5_in_config: the entries of one config.yml, keyed by filename.
find_md5_in_config(d) ==
    IF config[d].kind # "ok"
    THEN << >>
    ELSE LET with_md5 == SelectSeq(config[d].files,
                           LAMBDA e : /\ "md5" \in DOMAIN e
                                      /\ "filename" \in DOMAIN e
                                      /\ ~ is_ignored(join(d, e.filename)))
         IN  dict_update(<< >>,
               [ i \in 1..Len(with_md5) |->
                   [ name |-> with_md5[i].filename,
                     path |-> << d, with_md5[i].filename >>,
                     md5  |-> with_md5[i].md5 ] ])

\* current_depth of get_md5_list.find_config_files: the slashes of
\* os.path.normpath(root), which drops the leading "./".
normpath_depth(d) == IF d = Root THEN 0 ELSE Len(d) - 1

\* find_config_files of get_md5_list.py from the i-th directory of the walk
\* on; st = [read, catalog].  A directory that is ignored or too deep is
\* skipped with everything below it.
md5_find_config_files(i, st) ==
    IF i > Len(walk)
    THEN st
    ELSE LET d == walk[i]
         IN  IF \/ is_ignored(d)
                \/ \E k \in 1..Len(d) : normpath_depth(SubSeq(d, 1, k)) > scan.max_depth
                \/ config[d].kind = "none"
             THEN md5_find_config_files(i + 1, st)
             ELSE md5_find_config_files(i + 1,
                    [ read    |-> st.read \cup {d},
                      catalog |-> dict_update(st.catalog, find_md5_in_config(d)) ])

\* Lines 172-178: the names whose md5 an earlier entry of the catalog has.
duplicates_to_remove(cat) ==
    { cat[i].name : i \in { j \in 1..Len(cat) :
                              \E k \in 1..(j - 1) : cat[k].md5 = cat[j].md5 } }

\* Line 189: os.path.splitext(file_path)[0] + '_page.md'
page_md_path(path) == << path[1], page_filename(splitext(path[2])[1]) >>

\* dict(sorted(md5_catalog.items()))
sorted_by_name(cat) ==
    LET present == SelectSeq(Md5Names, LAMBDA n : n \in KeysOf(cat))
    IN  [ i \in 1..Len(present) |->
            cat[CHOOSE k \in 1..Len(cat) : cat[k].name = present[i]] ]

\* md5_list_main: the catalog, the duplicates, their removal when asked for,
\* the exit when asked for, and md5.yml.  os.remove of a file that is not on
\* disk raises, which ends the process after the removals done so far (the
\* duplicates are gone through in the order of a set).
md5_list_main ==
    LET found == md5_find_config_files(1, [ read |-> {}, catalog |-> << >> ])
        cat == found.catalog
        dups == duplicates_to_remove(cat)
        gone == { cat[i].path : i \in { k \in 1..Len(cat) : cat[k].name \in dups } }
        raises == scan.remove_duplicates /\ ~ (gone \subseteq mdisk)
        exits == /\ dups # {}
                 /\ scan.fail_on_duplicates
                 /\ ~ scan.remove_duplicates
    IN  \E done \in SUBSET (gone \cap mdisk) :
           LET removed == (done \cup { page_md_path(p) : p \in done }) \cap mdisk
               kept == SelectSeq(cat, LAMBDA e : e.path \notin done)
           IN  /\ IF scan.remove_duplicates
                  THEN raises \/ done = gone
                  ELSE done = {}
               /\ mdisk' = mdisk \ removed
               /\ md5run' = [ state   |-> IF raises \/ exits THEN "exit1"
                                          ELSE "returned",
                              read    |-> found.read,
                              catalog |-> kept,
                              written |-> IF raises \/ exits THEN << >>
                                          ELSE sorted_by_name(kept),
                              removed |-> removed ]
               /\ UNCHANGED << scan, treeVars, errVars >>

-----------------------------------------------------------------------------
(* The hashing of a file: EntryDetector.calculate_md5 of                   *)
(* config/hierarchy/detect_entry.py and calculate_md5 of                   *)
(* workspace/md5_check.py, which are the same code.                        *)
(*                                                                         *)
(* hashlib.md5 is modelled as what it is to its caller, a running state    *)
(* that update() folds the bytes of a chunk into one after the other and   *)
(* that hexdigest() closes with the count of the bytes; the state is kept  *)
(* in a small modulus.  The chunk of 4096 bytes is scaled down so that the *)
(* files of the model span several chunks.                                 *)

MaxBytes == 4
ChunkBytes == 2
HashMod == 251

Bytes == { 0, 1 }
ByteStrings == UNION { [ 1..n -> Bytes ] : n \in 0..MaxBytes }

\* The two files that are hashed, and the calls: the detector hashes the
\* first file in two runs, the workspace check hashes the second.
HashPaths == { << "a.pdf" >>, << "books", "b.txt" >> }
HashCalls == << [ path |-> << "a.pdf" >>, by |-> "EntryDetector.calculate_md5" ],
                [ path |-> << "a.pdf" >>, by |-> "EntryDetector.calculate_md5" ],
                [ path |-> << "books", "b.txt" >>, by |-> "md5_check.calculate_md5" ] >>

RECURSIVE md5_update(_, _)
\* md5_hash.update(chunk)
md5_update(h, chunk) ==
    IF chunk = << >> THEN h
    ELSE md5_update([ state |-> (h.state * 33 + chunk[1] + 1) % HashMod,
                      count |-> h.count + 1 ],
                    Tail(chunk))

\* hashlib.md5()
md5_new == [ state |-> 7, count |-> 0 ]

\* md5_hash.hexdigest(): the padding closes the state with the length.
hexdigest(h) == (h.state * 33 + h.count) % HashMod

\* f.read(4096) of a file opened "rb" at a position: the next bytes, fewer
\* than a chunk only at the end of the file, b"" after it.
read_loses_tail(bytes, pos) ==
    IF pos + ChunkBytes <= Len(bytes) THEN SubSeq(bytes, pos + 1, pos + ChunkBytes)
    ELSE << >>

read(bytes, pos) ==
    IF pos + ChunkBytes <= Len(bytes) THEN SubSeq(bytes, pos + 1, pos + ChunkBytes)
    ELSE SubSeq(bytes, pos + 1, Len(bytes))

NoHashJob == [ pc |-> "idle", pos |-> 0, md5_hash |-> md5_new, digest |-> -1 ]

\* md5_hash = hashlib.md5(); open(filepath, "rb")
HashOpens(j) ==
    /\ hjob[j].pc = "idle"
    /\ hjob' = [ hjob EXCEPT ![j] = [ NoHashJob EXCEPT !.pc = "reading" ] ]
    /\ UNCHANGED hfiles

\* One turn of  for chunk in iter(lambda: f.read(4096), b""): the chunk is
\* folded in, and the empty chunk ends the loop and gives the digest.
HashReads(j) ==
    /\ hjob[j].pc = "reading"
    /\ LET chunk == read(hfiles[HashCalls[j].path], hjob[j].pos)
       IN  hjob' = [ hjob EXCEPT ![j] =
               IF chunk = << >>
               THEN [ @ EXCEPT !.pc = "returned",
                               !.digest = hexdigest(hjob[j].md5_hash) ]
               ELSE [ @ EXCEPT !.pos = @ + Len(chunk),
                               !.md5_hash = md5_update(@, chunk) ] ]
    /\ UNCHANGED hfiles

-----------------------------------------------------------------------------
(* The merge of the workspace: tools/workspace/workspace_merge.py          *)

MaxWsFiles == 2
max_retries == 3

\* What a file of the workspace is to process_workspace: one that
\* should_skip_file leaves out, one whose MD5 is in md5.yml, or a new one.
WsKinds == { "skipped", "known", "new" }

\* What get_ai_classification gives: None (no result, or the request
\* raised), a suggested path that does not exist, or one that exists; or it
\* raises, when extract_text cannot read the file.
Answers == { "None", "missing path", "existing path", "raises" }

WsIdle == [ state |-> "idle", file |-> 0, attempt |-> 0 ]

\* The retry loop is left when the file was copied.
never_leaves(answer) == FALSE
leaves(answer) == answer = "existing path"

\* The for loop over the files goes on to the next file, or is over and
\* the workspace is renamed to old_workspace.
next_file(i) ==
    IF i < Len(wsfiles)
    THEN [ state |-> "file", file |-> i + 1, attempt |-> 0 ]
    ELSE [ state |-> "renamed", file |-> 0, attempt |-> 0 ]

\* process_workspace starts: the workspace exists and is walked.
process_workspace ==
    /\ wpc.state = "idle"
    /\ wpc' = next_file(0)
    /\ UNCHANGED << wsfiles, wlog >>

\* A file that should_skip_file leaves out.
SkipsFile ==
    /\ wpc.state = "file"
    /\ wsfiles[wpc.file] = "skipped"
    /\ wpc' = next_file(wpc.file)
    /\ UNCHANGED << wsfiles, wlog >>

\* A file whose MD5 is in md5.yml is copied to the repeated directory; a
\* copy that raises ends process_workspace.
CopiesRepeated ==
    /\ wpc.state = "file"
    /\ wsfiles[wpc.file] = "known"
    /\ \E raises \in BOOLEAN :
          /\ wlog' = Append(wlog, [ what |-> "copy to repeated", file |-> wpc.file,
                                    raised |-> raises ])
          /\ wpc' = IF raises THEN [ wpc EXCEPT !.state = "raised" ]
                     ELSE next_file(wpc.file)
    /\ UNCHANGED wsfiles

\* A new file enters the retry loop.
EntersRetryLoop ==
    /\ wpc.state = "file"
    /\ wsfiles[wpc.file] = "new"
    /\ wpc' = [ wpc EXCEPT !.state = "classify" ]
    /\ UNCHANGED << wsfiles, wlog >>

\* One turn of  for attempt in range(max_retries): the classification is
\* asked for; with an existing path the file is copied and the loop is
\* left, with anything else the next turn follows, and after the last turn
\* the file is left where it is.
Classifies ==
    /\ wpc.state = "classify"
    /\ \E answer \in Answers, raises \in BOOLEAN :
          LET asked == Append(wlog, [ what |-> "classify", file |-> wpc.file,
                                      attempt |-> wpc.attempt, answer |-> answer ])
              copied == Append(asked, [ what |-> "copy", file |-> wpc.file,
                                        raised |-> raises ])
          IN  /\ answer # "existing path" => ~ raises
              /\ wlog' = IF answer = "existing path" THEN copied ELSE asked
              /\ wpc' = IF raises \/ answer = "raises"
                         THEN [ wpc EXCEPT !.state = "raised" ]
                         ELSE IF leaves(answer) \/ wpc.attempt = max_retries - 1
                         THEN next_file(wpc.file)
                         ELSE [ wpc EXCEPT !.attempt = @ + 1 ]
    /\ UNCHANGED wsfiles

-----------------------------------------------------------------------------
(* The table of contents: toc/her_toc.py                                   *)

\* The directories of the archive the generator can come to, and the page
\* of the one file a directory can list.
TocDirs == { Root, << "books" >>, << "tmp" >>, << "books", "c" >> }
TocSubdirs(d) ==
    CASE d = Root           -> { << >>, << "books" >>, << "tmp" >>,
                                 << "books", "tmp" >>, << "tmp", "books" >> }
      [] d = << "books" >>  -> { << >>, << "c" >> }
      [] OTHER              -> { << >> }
TocPage == "a_page.md"

\* A directory without config.yml, and one whose config.yml is empty.
TocNoConfig == [ kind |-> "none", files |-> << >>, subdirs |-> << >> ]
TocEmptyConfig == [ kind |-> "empty", files |-> << >>, subdirs |-> << >> ]

\* The data that could not be loaded (None), and the rows of the data that
\* was: the pages by falling views.
NoGa == [ loaded |-> FALSE, rows |-> << >> ]
GaRows == << << "books", "c", TocPage >>, << "books", TocPage >>,
             << TocPage >>, << "tmp", TocPage >> >>

\* The generator after __init__, and before process_directory('.').
NewGenerator == [ state |-> "idle", current_directory |-> Root,
                  all_entries |-> << >>, files_entries |-> << >>,
                  processed_paths |-> {}, log |-> << >> ]

\* utils.is_ignored: never the base directory, else by pattern or by git.
nothing_ignored(d) == FALSE
toc_is_ignored(d) == d # Root /\ d \in tocignored

RECURSIVE CommonLen(_, _)
CommonLen(a, b) ==
    IF a = << >> \/ b = << >> \/ a[1] # b[1] THEN 0
    ELSE 1 + CommonLen(Tail(a), Tail(b))

\* os.path.relpath(path, start): the steps up from start and then down.
relpath(path, start) ==
    LET c == CommonLen(path, start)
    IN  [ up |-> Len(start) - c, down |-> SubSeq(path, c + 1, Len(path)) ]

RECURSIVE store_entries_again(_, _, _), store_entries(_, _, _)

\* The loop of FilesProcessor.process as far as its all_entries goes: a
\* content entry whose path was not processed before is stored, its link made
\* relative to the base directory.
store_entries_again(d, files, g) ==
    IF files = << >> THEN g
    ELSE LET full_path == d \o << files[1].page >>
         IN  store_entries(d, Tail(files),
                 [ g EXCEPT !.processed_paths = @ \cup { full_path },
                            !.files_entries = Append(@, [ link |-> full_path,
                                                          current_dir |-> d ]) ])

store_entries(d, files, g) ==
    IF files = << >> THEN g
    ELSE LET full_path == d \o << files[1].page >>
         IN  store_entries(d, Tail(files),
                 IF full_path \in g.processed_paths THEN g
                 ELSE [ g EXCEPT !.processed_paths = @ \cup { full_path },
                                 !.files_entries = Append(@, [ link |-> full_path,
                                                               current_dir |-> d ]) ])

\* FilesProcessor.process: its all_entries is cleared and filled anew.
files_process(d, files, g) ==
    store_entries(d, files, [ g EXCEPT !.files_entries = << >> ])

\* The files of process_directory and of _generate_toc_content: they are
\* processed once to collect the entries, which the generator adds to its
\* own all_entries, and once more to render the table.
collect_and_render(d, files, g) ==
    IF files = << >> THEN g
    ELSE LET collected == files_process(d, files, g)
             extended == [ collected EXCEPT !.all_entries = @ \o collected.files_entries ]
         IN  files_process(d, files, extended)

\* _generate_recent_updates: the entries of all_entries (the model holds
\* fewer than the ten it takes), when the template asks for them.
recent_updates(g) ==
    IF toctemplate THEN [ i \in 1..Len(g.all_entries) |-> g.all_entries[i].link ]
    ELSE << >>

\* get_most_visited: the rows of the data in their order, each matched by the
\* link of an entry, the link then made relative to current_directory.
get_most_visited(g) ==
    IF ~ ga.loaded \/ g.all_entries = << >> THEN << >>
    ELSE LET matched == SelectSeq(ga.rows, LAMBDA row :
                            \E i \in 1..Len(g.all_entries) : g.all_entries[i].link = row)
             entry(row) == g.all_entries[CHOOSE i \in 1..Len(g.all_entries) :
                                            g.all_entries[i].link = row]
         IN  [ k \in 1..Len(matched) |->
                 [ page |-> matched[k],
                   link |-> relpath(entry(matched[k]).current_dir \o entry(matched[k]).link,
                                    g.current_directory) ] ]

RECURSIVE toc_process_directory(_, _), toc_process_subdirs(_, _, _)

\* for subdir in config.get('subdirs', []): process_directory(subdir_path)
toc_process_subdirs(d, subdirs, g) ==
    IF subdirs = << >> \/ g.state = "raised" THEN g
    ELSE toc_process_subdirs(d, Tail(subdirs),
                             toc_process_directory(d \o << subdirs[1] >>, g))

\* TOCGenerator.process_directory
toc_process_directory(d, g) ==
    IF toc_is_ignored(d) THEN g
    ELSE LET here == [ g EXCEPT !.current_directory = d ]
             conf == IF d \in TocDirs THEN tocconf[d] ELSE TocNoConfig
         IN  IF conf.kind = "none" THEN here
             ELSE IF conf.kind = "empty" THEN [ here EXCEPT !.state = "raised" ]
             ELSE LET below == toc_process_subdirs(d, conf.subdirs, here)
                      stored == collect_and_render(d, conf.files, below)
                      most_visited == get_most_visited(stored)
                  IN  IF below.state = "raised" THEN below
                      ELSE [ stored EXCEPT
                               !.current_directory = d,
                               !.log = @ \o << [ what |-> "most visited", dir |-> d,
                                                 current_directory |-> stored.current_directory,
                                                 links |-> most_visited ],
                                               [ what |-> "README.md", dir |-> d,
                                                 current_directory |-> d,
                                                 links |-> most_visited,
                                                 recent |-> recent_updates(stored) ] >> ]

\* main: a new generator processes the base directory.
her_toc_main ==
    /\ tocrun.state = "idle"
    /\ LET g == toc_process_directory(Root, NewGenerator)
       IN  tocrun' = [ g EXCEPT !.state = IF g.state = "raised" THEN "raised" ELSE "done" ]
    /\ UNCHANGED << tocconf, tocignored, ga, toctemplate >>

-----------------------------------------------------------------------------
(* The worker pool of the file-metadata stage: ai/archive/gen_file_meta.py *)

max_workers == 5

\* The most files the directory of the pool holds.
MaxFiles == 3

PoolNames == << "a.docx", "a.pdf", "b.txt", "n.html" >>
PoolPages == { "a_page.md", "b_page.md", "n_page.md" }
PlainPages == { page_filename(TextName(i)) : i \in 1..MaxPlain }

\* The placeholder of the page template, and a description of an earlier run.
Placeholder == "[Unknown description(update needed)]"
Described == "described"

\* The entry of a file after entry detection and page generation.
pool_entry(filename) ==
    [ filename |-> filename,
      type     |-> get_file_type(filename),
      page     |-> page_filename(splitext(filename)[1]) ]

\* The configs of a directory: some of the names, in the order of the listing.
PoolConfigs ==
    { SelectSeq([ i \in 1..Len(PoolNames) |-> pool_entry(PoolNames[i]) ],
                LAMBDA e : e.filename \in S) :
        S \in { T \in SUBSET { PoolNames[i] : i \in 1..Len(PoolNames) } :
                  T # {} /\ Cardinality(T) <= MaxFiles } }

\* The configs of a directory of plain text files only.
PlainConfigs ==
    { [ i \in 1..n |-> pool_entry(TextFile(i)) ] : n \in 1..MaxPlain }

endswith_html(filename) == splitext(filename)[2] = ".html"

\* Lines 229-234: the entries handed to the pool.
files_to_process ==
    SelectSeq(poolfiles, LAMBDA e : /\ Truthy(e.page)
                                    /\ ~ endswith_html(e.filename)
                                    /\ e.type # "other")

Places == 1..Len(files_to_process)
Active == { i \in DOMAIN job : job[i] \in { "started", "read", "generated" } }

\* update_metadata up to executor.map: every entry is submitted.
update_metadata ==
    /\ ppc = "main"
    /\ ppc' = "pool"
    /\ job' = [ i \in Places |-> "queued" ]
    /\ held' = [ i \in Places |-> NoFile ]
    /\ UNCHANGED << poolfiles, pagetext, wrote, handed >>

\* The same with no bound on the workers.
WorkerTakes_unbounded(i) ==
    /\ ppc = "pool"
    /\ i \in Places
    /\ job[i] = "queued"
    /\ \A j \in 1..(i - 1) : job[j] # "queued"
    /\ job' = [ job EXCEPT ![i] = "started" ]
    /\ handed' = Append(handed, i)
    /\ UNCHANGED << poolfiles, pagetext, ppc, held, wrote >>

\* A free worker takes the next entry of the queue.
WorkerTakes(i) ==
    /\ ppc = "pool"
    /\ i \in Places
    /\ job[i] = "queued"
    /\ \A j \in 1..(i - 1) : job[j] # "queued"
    /\ Cardinality(Active) < max_workers
    /\ job' = [ job EXCEPT ![i] = "started" ]
    /\ handed' = Append(handed, i)
    /\ UNCHANGED << poolfiles, pagetext, ppc, held, wrote >>

\* process_single_file, lines 131-170: the page is read; a missing page or
\* one without the placeholder ends the work on the entry.
WorkerReads(i) ==
    /\ ppc = "pool"
    /\ i \in Places
    /\ job[i] = "started"
    /\ LET text == pagetext[files_to_process[i].page]
       IN  /\ held' = [ held EXCEPT ![i] = text ]
           /\ job' = [ job EXCEPT ![i] =
                         IF text = Placeholder THEN "read" ELSE "skipped" ]
    /\ UNCHANGED << poolfiles, pagetext, ppc, wrote, handed >>

\* Line 184: generate_metadata gave the metadata of the file.
WorkerGenerates(i) ==
    /\ ppc = "pool"
    /\ i \in Places
    /\ job[i] = "read"
    /\ job' = [ job EXCEPT ![i] = "generated" ]
    /\ UNCHANGED << poolfiles, pagetext, ppc, held, wrote, handed >>

\* Line 186: generate_metadata gave nothing.
WorkerGetsNothing(i) ==
    /\ ppc = "pool"
    /\ i \in Places
    /\ job[i] = "read"
    /\ job' = [ job EXCEPT ![i] = "nothing" ]
    /\ UNCHANGED << poolfiles, pagetext, ppc, held, wrote, handed >>

\* Lines 188-211: the placeholders of the content that was read are replaced
\* by the metadata of the file, and the page is written.
WorkerWrites(i) ==
    /\ ppc = "pool"
    /\ i \in Places
    /\ job[i] = "generated"
    /\ pagetext' = [ pagetext EXCEPT ![files_to_process[i].page] =
                       files_to_process[i].filename ]
    /\ job' = [ job EXCEPT ![i] = "updated" ]
    /\ wrote' = wrote \cup {i}
    /\ UNCHANGED << poolfiles, ppc, held, handed >>

\* Line 243: every result is in; the executor shuts down.
PoolJoins ==
    /\ ppc = "pool"
    /\ \A i \in Places : job[i] \in { "skipped", "nothing", "updated" }
    /\ ppc' = "returned"
    /\ UNCHANGED << poolfiles, pagetext, job, held, wrote, handed >>

-----------------------------------------------------------------------------
(* The pages of one directory with their text: page/gen_page.py            *)

MaxPageRuns == 2

PageTemplate == "page.md.template"
AdditionalTemplate == "additional.md.template"

PageNames == { "a_page.md", "n_page.md" }
NoPage == [ filename |-> NoFile, md5 |-> 0 ]
MaxChanges == 2

\* filename.endswith('.md')
endswith_md(filename) == splitext(filename)[2] = ".md"

\* The mutant of page_exists: no page is ever found on the disk.
page_never_exists(p, disk) == FALSE

\* os.path.exists(page_path)
page_exists(p, disk) == p \in DOMAIN disk /\ disk[p] # NoPage

\* template_content.format(...): what the page is written from; every other
\* field is a fixed placeholder.
page_content(entry) == [ filename |-> entry.filename, md5 |-> entry.md5 ]

with_page(entry, page) == [ entry EXCEPT !.page = page ]

\* generate_metadata_page on the run state st = [files, pages, md, failed,
\* created]: files are the entries already handled, created the pages this
\* run wrote.
generate_metadata_page(entry, st, templates) ==
    LET done(e, s) == [ s EXCEPT !.files = Append(@, e) ]
        is_md == endswith_md(entry.filename)
        template == IF is_md THEN AdditionalTemplate ELSE PageTemplate
        page == page_filename(entry.name)
    IN  IF st.failed
        THEN st
        ELSE IF entry.type \notin { "document", "audio", "video", "webpage" } /\ ~ is_md
        THEN done(with_page(entry, entry.filename), st)
        ELSE IF is_md /\ st.md.marker
        THEN done(with_page(entry, entry.filename), st)
        ELSE IF template \notin templates.exist
        THEN [ st EXCEPT !.failed = TRUE ]
        ELSE IF page_exists(page, st.pages)
        THEN done(with_page(entry, page), st)
        ELSE IF is_md
        THEN done(with_page(entry, entry.filename),
                  [ st EXCEPT !.md = [ marker |-> templates.marker,
                                       appended |-> @.appended + 1 ] ])
        ELSE done(with_page(entry, page),
                  [ st EXCEPT !.pages[page] = page_content(entry),
                              !.created = @ \cup { page } ])

RECURSIVE generate_pages(_, _, _, _)
generate_pages(files, i, st, templates) ==
    IF i > Len(files)
    THEN st
    ELSE generate_pages(files, i + 1,
                        generate_metadata_page(files[i], st, templates),
                        templates)

\* process_directory of gen_page.py on the one directory: the pages and the
\* markdown file are written as the entries go; config.yml is saved at the end
\* and only when nothing raised.
PageRun ==
    generate_pages(pgfiles, 1,
                   [ files |-> << >>, pages |-> pgpages, md |-> pgmd,
                     failed |-> FALSE, created |-> {} ],
                   pgtemplates)

generate_pages_main ==
    /\ pgruns < MaxPageRuns
    /\ pgfiles # << >>
    /\ pgpages' = PageRun.pages
    /\ pgmd' = PageRun.md
    /\ pgfiles' = IF PageRun.failed THEN pgfiles ELSE PageRun.files
    /\ pgruns' = pgruns + 1
    /\ UNCHANGED pgtemplates

\* Between two runs a file of the directory changes and detect_entry records
\* its new md5 in config.yml; an md5 is written as the number of the change.
FileRedetected(i) ==
    /\ pgruns > 0
    /\ i \in 1..Len(pgfiles)
    /\ pgfiles[i].md5 < MaxChanges
    /\ pgfiles' = [ pgfiles EXCEPT ![i].md5 = @ + 1 ]
    /\ pgruns' = 0
    /\ UNCHANGED << pgpages, pgmd, pgtemplates >>

-----------------------------------------------------------------------------
(* The metadata addition from page.yml: file/add_config_from_page.py       *)

MaxAddRuns == 2

LinkPlaceholder == "[Unknown link(update needed)]"
ArchivedPlaceholder == "[Unknown archived date(update needed)]"

AddPages == { "a_page.md", "n.md" }
NoText == [ link |-> NoFile, archived |-> NoFile ]

\* Where the link of a file comes from: nowhere, a record of page.yml without
\* or with a visited_date, or the comment tcd_original_link in the file.
LinkSources == { "none", "page.yml", "page.yml dated", "embedded" }

\* Lines 53-67: the link and the date to write.
found_link(file) ==
    CASE file.source \in { "page.yml", "page.yml dated" } -> "https://recorded"
      [] file.source = "embedded"                          -> "https://embedded"
      [] OTHER                                             -> ""

visited_date(file) ==
    IF file.source = "page.yml dated" THEN "2020-01-01 00:00:00" ELSE "now"

\* Lines 69-87 on one entry: both tests look at the content that was read,
\* and each branch writes the page.
update_file(file, disk) ==
    IF ~ Truthy(file.page) \/ ~ Truthy(found_link(file)) \/ disk[file.page] = NoText
    THEN disk
    ELSE LET text == disk[file.page]
             with_link == IF text.link = LinkPlaceholder
                          THEN [ text EXCEPT !.link = found_link(file) ]
                          ELSE text
             with_date == IF text.archived = ArchivedPlaceholder
                          THEN [ text EXCEPT !.archived = visited_date(file) ]
                          ELSE with_link
         IN  [ disk EXCEPT ![file.page] = with_date ]

RECURSIVE update_entries(_, _, _)
update_entries(files, i, disk) ==
    IF i > Len(files)
    THEN disk
    ELSE update_entries(files, i + 1, update_file(files[i], disk))

\* update_files on the directory.
update_files ==
    /\ adruns < MaxAddRuns
    /\ adfiles # << >>
    /\ adpages' = update_entries(adfiles, 1, adpages)
    /\ adruns' = adruns + 1
    /\ UNCHANGED adfiles

-----------------------------------------------------------------------------
(* The translation of the documents: modify/translate.py                   *)

MaxTranslate == 3

TranslatePaths == { "docs/a.zh.md", "docs/b.zh.md", "docs/c.md", "docs/d.md" }

\* list.remove(x): the first x leaves the list.
RECURSIVE list_remove(_, _)
list_remove(list, x) ==
    IF list = << >>
    THEN << >>
    ELSE IF Head(list) = x
    THEN Tail(list)
    ELSE << Head(list) >> \o list_remove(Tail(list), x)

\* One turn of the for loop of lines 65-83: the iterator gives the entry at
\* its place and moves on; gen.py succeeds, the path leaves the very list the
\* loop runs over and the config is saved.
TranslatesFile ==
    /\ trpc = "loop"
    /\ trnext < Len(trfiles)
    /\ trnext' = trnext + 1
    /\ trdone' = Append(trdone, trfiles[trnext + 1])
    /\ trfiles' = list_remove(trfiles, trfiles[trnext + 1])
    /\ trsaved' = trfiles'
    /\ UNCHANGED << trstart, trfailed, trpc >>

\* The same turn when gen.py fails: CalledProcessError is caught and the path
\* stays.
TranslationFails ==
    /\ trpc = "loop"
    /\ trnext < Len(trfiles)
    /\ trnext' = trnext + 1
    /\ trfailed' = TRUE
    /\ UNCHANGED << trstart, trfiles, trdone, trsaved, trpc >>

\* Lines 85-88: the iterator is past the end of the list; the config is saved.
translate_files_returns ==
    /\ trpc = "loop"
    /\ trnext >= Len(trfiles)
    /\ trsaved' = trfiles
    /\ trpc' = "returned"
    /\ UNCHANGED << trstart, trfiles, trnext, trdone, trfailed >>

-----------------------------------------------------------------------------
(* The renaming of the files of one directory: file/rename.py              *)

MaxRenameLen == 2

\* A filename is a sequence of marks: a letter, a space, an underscore, a
\* hash sign, or the watermark that is cut out of the names.
Watermark == "soushu2023.com@"
RenameMarks == { "a", " ", "_", "#", Watermark }
RenameNames == UNION { [ 1..n -> RenameMarks ] : n \in 1..MaxRenameLen }

\* re.sub(r'[ \[\]\(\)#]', '_', filename) and the two replace calls.
new_filename(filename) ==
    LET swapped == [ i \in 1..Len(filename) |->
                       IF filename[i] \in { " ", "[", "]", "(", ")", "#" }
                       THEN "_" ELSE filename[i] ]
    IN  SelectSeq(swapped, LAMBDA c : c # Watermark)

NamesOn(disk) == { f[1] : f \in disk }

\* os.rename(old, new) where it replaces the file at new.
os_rename(disk, old, new) ==
    { f \in disk : f[1] \notin { old, new } }
        \cup { << new, f[2] >> : f \in { g \in disk : g[1] = old } }

\* One turn of the loop of lines 13-24 on a name that stays as it is.
KeepsName(filename) ==
    /\ rnpc = "loop"
    /\ filename \in rntodo
    /\ new_filename(filename) = filename
    /\ rntodo' = rntodo \ { filename }
    /\ UNCHANGED << rnbefore, rndisk, rnpc >>

\* The turn on a name that changes: os.rename moves the file, and where the
\* platform lets it, over the file that has the new name.
RenamesFile(filename) ==
    /\ rnpc = "loop"
    /\ filename \in rntodo
    /\ new_filename(filename) \notin { filename, << >> }
    /\ rndisk' = os_rename(rndisk, filename, new_filename(filename))
    /\ rntodo' = rntodo \ { filename }
    /\ UNCHANGED << rnbefore, rnpc >>

\* The turn where os.rename raises: nothing is left of the new name, or the
\* new name is taken and the platform does not replace; nothing catches it.
RenameRaises(filename) ==
    /\ rnpc = "loop"
    /\ filename \in rntodo
    /\ new_filename(filename) # filename
    /\ \/ new_filename(filename) = << >>
       \/ new_filename(filename) \in NamesOn(rndisk)
    /\ rnpc' = "raised"
    /\ UNCHANGED << rnbefore, rndisk, rntodo >>

\* The listing of the directory is through.
rename_files_in_directory_returns ==
    /\ rnpc = "loop"
    /\ rntodo = {}
    /\ rnpc' = "returned"
    /\ UNCHANGED << rnbefore, rndisk, rntodo >>

-----------------------------------------------------------------------------
(* The specifications.                                                     *)


TreeInit ==
    /\ dirs = {Root} \cup StaticDirs
    /\ content = [ slot \in FileSlots |-> NoFile ]
    /\ pages = {}
    /\ config = [ d \in AllDirs |-> NoConfig ]
    /\ changes = << >>
    /\ status = "idle"
    /\ written = {}
    /\ runs = 0

SortIdle ==
    /\ names = << >>
    /\ sorted1 = NotSorted
    /\ sorted2 = NotSorted
    /\ filemeta = << >>
    /\ categories = NoCategories

BuildIdle ==
    /\ args = [ type |-> "document", script |-> "", no_clean |-> FALSE,
                generate_wordcloud |-> FALSE ]
    /\ bpc = "main"
    /\ stage = 0
    /\ log = << >>

ErrIdle ==
    /\ badpages = {}
    /\ catalog = NoCatalog
    /\ links = NoLinks

Md5Idle ==
    /\ scan = DefaultScan
    /\ mdisk = {}
    /\ md5run = NoMd5Run

HashIdle ==
    /\ hfiles = << >>
    /\ hjob = << >>

MergeIdle ==
    /\ wsfiles = << >>
    /\ wpc = WsIdle
    /\ wlog = << >>

TocIdle ==
    /\ tocconf = << >>
    /\ tocignored = {}
    /\ ga = NoGa
    /\ toctemplate = FALSE
    /\ tocrun = NewGenerator

PageIdle ==
    /\ pgfiles = << >>
    /\ pgpages = [ p \in PageNames |-> NoPage ]
    /\ pgmd = [ marker |-> FALSE, appended |-> 0 ]
    /\ pgtemplates = [ exist |-> {}, marker |-> FALSE ]
    /\ pgruns = 0

AddIdle ==
    /\ adfiles = << >>
    /\ adpages = [ p \in AddPages |-> NoText ]
    /\ adruns = 0

TrIdle ==
    /\ trstart = << >>
    /\ trfiles = << >>
    /\ trnext = 0
    /\ trdone = << >>
    /\ trsaved = << >>
    /\ trfailed = FALSE
    /\ trpc = "idle"

RnIdle ==
    /\ rnbefore = {}
    /\ rndisk = {}
    /\ rntodo = {}
    /\ rnpc = "idle"

LateIdle == PageIdle /\ AddIdle /\ TrIdle /\ RnIdle

RestIdle == HashIdle /\ MergeIdle /\ TocIdle /\ LateIdle

PoolIdle ==
    /\ poolfiles = << >>
    /\ pagetext = [ p \in PoolPages \cup PlainPages |-> NoFile ]
    /\ ppc = "main"
    /\ job = << >>
    /\ held = << >>
    /\ wrote = {}
    /\ handed = << >>

\* The archive: the tree changes, and detection and page generation run.
Init == TreeInit /\ SortIdle /\ BuildIdle /\ ErrIdle /\ PoolIdle /\ Md5Idle /\ RestIdle

Next ==
    \/ detect_entry_main /\ UNCHANGED << sortVars, buildVars, errVars, poolVars, md5Vars, restVars >>
    \/ gen_page_main /\ UNCHANGED << sortVars, buildVars, errVars, poolVars, md5Vars, restVars >>
    \/ \E d \in DynDirs \cup {Root} :
          update_directory_metadata(d) /\ UNCHANGED << sortVars, buildVars, errVars, poolVars, md5Vars, restVars >>
    \/ \E slot \in FileSlots, c \in Contents :
          WriteFile(slot, c) /\ UNCHANGED << sortVars, buildVars, errVars, poolVars, md5Vars, restVars >>
    \/ \E slot \in FileSlots : RemoveFile(slot) /\ UNCHANGED << sortVars, buildVars, errVars, poolVars, md5Vars, restVars >>
    \/ \E d \in DynDirs : MakeDir(d) /\ UNCHANGED << sortVars, buildVars, errVars, poolVars, md5Vars, restVars >>
    \/ \E d \in DynDirs : RemoveDir(d) /\ UNCHANGED << sortVars, buildVars, errVars, poolVars, md5Vars, restVars >>
    \/ \E d \in DynDirs \cup {Root} : TruncateConfig(d) /\ UNCHANGED << sortVars, buildVars, errVars, poolVars, md5Vars, restVars >>
    \/ \E d \in DynDirs \cup {Root} : DeleteConfig(d) /\ UNCHANGED << sortVars, buildVars, errVars, poolVars, md5Vars, restVars >>

Spec == Init /\ [][Next]_vars

\* The sort of the table of contents, on every list of names.
\* The sort is looked at with files that are all documents without a date.
PlainMeta == [ type |-> "document", archived_date |-> NoDate ]

SortInit ==
    /\ names \in FileLists
    /\ sorted1 = NotSorted
    /\ sorted2 = NotSorted
    /\ filemeta = [ i \in 1..Len(names) |-> PlainMeta ]
    /\ categories = NoCategories

InitSort == TreeInit /\ SortInit /\ BuildIdle /\ ErrIdle /\ PoolIdle /\ Md5Idle /\ RestIdle

NextSort ==
    \/ SortFiles /\ UNCHANGED << treeVars, buildVars, errVars, poolVars, md5Vars, restVars >>
    \/ SortAgain /\ UNCHANGED << treeVars, buildVars, errVars, poolVars, md5Vars, restVars >>

SpecSort == InitSort /\ [][NextSort]_vars

\* The categories of a directory: a few files with names that sort, of every
\* type and date.
CatNames == { n \in Names : Len(n) = 1 /\ ~ KeyRaises(n) }

CatMetas == [ type : {"document", "image"}, archived_date : ArchivedDates \cup {NoDate} ]

CatInit ==
    /\ \E n \in 0..MaxCatFiles :
          /\ names \in [ 1..n -> CatNames ]
          /\ filemeta \in [ 1..n -> CatMetas ]
    /\ sorted1 = NotSorted
    /\ sorted2 = NotSorted
    /\ categories = NoCategories

InitCat == TreeInit /\ CatInit /\ BuildIdle /\ ErrIdle /\ PoolIdle /\ Md5Idle /\ RestIdle

SpecCat == InitCat /\ [][NextSort]_vars

\* One run of the build driver, for every command line.
BuildInit ==
    /\ args \in BuildArgs
    /\ bpc = "main"
    /\ stage = 0
    /\ log = << >>

InitBuild == TreeInit /\ SortIdle /\ BuildInit /\ ErrIdle /\ PoolIdle /\ Md5Idle /\ RestIdle

NextBuild ==
    \/ BuildStart /\ UNCHANGED << treeVars, sortVars, errVars, poolVars, md5Vars, restVars >>
    \/ SingleReturns /\ UNCHANGED << treeVars, sortVars, errVars, poolVars, md5Vars, restVars >>
    \/ SingleRaises /\ UNCHANGED << treeVars, sortVars, errVars, poolVars, md5Vars, restVars >>
    \/ CallStage /\ UNCHANGED << treeVars, sortVars, errVars, poolVars, md5Vars, restVars >>
    \/ StageReturns /\ UNCHANGED << treeVars, sortVars, errVars, poolVars, md5Vars, restVars >>
    \/ StageRaises /\ UNCHANGED << treeVars, sortVars, errVars, poolVars, md5Vars, restVars >>
    \/ StageExits /\ UNCHANGED << treeVars, sortVars, errVars, poolVars, md5Vars, restVars >>
    \/ CallToc /\ UNCHANGED << treeVars, sortVars, errVars, poolVars, md5Vars, restVars >>
    \/ TocReturns /\ UNCHANGED << treeVars, sortVars, errVars, poolVars, md5Vars, restVars >>
    \/ TocRaises /\ UNCHANGED << treeVars, sortVars, errVars, poolVars, md5Vars, restVars >>

SpecBuild == InitBuild /\ [][NextBuild]_vars

\* The stages that walk the tree, on an archive with files in two directories.
TreeFilled ==
    /\ dirs = {Root} \cup DynDirs \cup StaticDirs
    /\ content = [ slot \in FileSlots |-> "x" ]
    /\ pages = {}
    /\ config = [ d \in AllDirs |-> NoConfig ]
    /\ changes = << >>
    /\ status = "idle"
    /\ written = {}
    /\ runs = 0

InitErr == TreeFilled /\ SortIdle /\ BuildIdle /\ ErrIdle /\ PoolIdle /\ Md5Idle /\ RestIdle

NextErr ==
    \/ detect_entry_main /\ StagesForgotten /\ UNCHANGED << sortVars, buildVars, poolVars, restVars >>
    \/ gen_page_main /\ StagesForgotten /\ UNCHANGED << sortVars, buildVars, poolVars, restVars >>
    \/ \E d \in DynDirs \cup {Root} :
          TruncateConfig(d) /\ StagesForgotten /\ UNCHANGED << sortVars, buildVars, poolVars, restVars >>
    \/ \E d \in DynDirs \cup {Root} :
          DeleteConfig(d) /\ StagesForgotten /\ UNCHANGED << sortVars, buildVars, poolVars, restVars >>
    \/ \E p \in pages : CorruptPage(p) /\ UNCHANGED << sortVars, buildVars, poolVars, restVars >>
    \/ catalog_main /\ UNCHANGED << sortVars, buildVars, poolVars, restVars >>
    \/ rename_main /\ UNCHANGED << sortVars, buildVars, poolVars, restVars >>

SpecErr == InitErr /\ [][NextErr]_vars

\* update_metadata on one directory, for every config and state of its pages.
PoolInit ==
    /\ \/ /\ poolfiles \in PoolConfigs
          /\ \E t \in [ PoolPages -> { NoFile, Placeholder, Described } ] :
                pagetext = [ p \in PoolPages \cup PlainPages |->
                               IF p \in PoolPages THEN t[p] ELSE NoFile ]
       \/ /\ poolfiles \in PlainConfigs
          /\ pagetext = [ p \in PoolPages \cup PlainPages |->
                            IF p \in PlainPages THEN Placeholder ELSE NoFile ]
    /\ ppc = "main"
    /\ job = << >>
    /\ held = << >>
    /\ wrote = {}
    /\ handed = << >>

InitPool == TreeInit /\ SortIdle /\ BuildIdle /\ ErrIdle /\ PoolInit /\ Md5Idle /\ RestIdle

NextPool ==
    \/ update_metadata /\ UNCHANGED << treeVars, sortVars, buildVars, errVars, md5Vars, restVars >>
    \/ \E i \in Places :
          WorkerTakes(i) /\ UNCHANGED << treeVars, sortVars, buildVars, errVars, md5Vars, restVars >>
    \/ \E i \in Places :
          WorkerReads(i) /\ UNCHANGED << treeVars, sortVars, buildVars, errVars, md5Vars, restVars >>
    \/ \E i \in Places :
          WorkerGenerates(i) /\ UNCHANGED << treeVars, sortVars, buildVars, errVars, md5Vars, restVars >>
    \/ \E i \in Places :
          WorkerGetsNothing(i) /\ UNCHANGED << treeVars, sortVars, buildVars, errVars, md5Vars, restVars >>
    \/ \E i \in Places :
          WorkerWrites(i) /\ UNCHANGED << treeVars, sortVars, buildVars, errVars, md5Vars, restVars >>
    \/ PoolJoins /\ UNCHANGED << treeVars, sortVars, buildVars, errVars, md5Vars, restVars >>

SpecPool == InitPool /\ [][NextPool]_vars

\* The scanners of the configs, on every small tree of catalogued files: the
\* base directory and d1 hold some of the files, the directories below d1
\* and docs hold a config.yml without files.
Md5Entry(filename, digest) ==
    [ name |-> splitext(filename)[1], filename |-> filename,
      type |-> get_file_type(filename), format |-> get_file_format(filename),
      size |-> "1", md5 |-> digest, page |-> page_filename(splitext(filename)[1]) ]

Md5FileLists ==
    { SelectSeq([ i \in 1..Len(Md5Names) |->
                    IF f[Md5Names[i]] = NoFile THEN << >>
                    ELSE Md5Entry(Md5Names[i], f[Md5Names[i]]) ],
                LAMBDA e : e # << >>) :
        f \in [ { Md5Names[i] : i \in 1..Len(Md5Names) } -> Digests \cup { NoFile } ] }

Md5Config(d, all, files) ==
    [ kind    |-> "ok",
      meta    |-> [ k \in { "name", "description", "curator", "source", "tags",
                            "license" } |->
                      IF k = "name" THEN basename(d)
                      ELSE IF k = "tags" THEN "[]" ELSE "" ],
      files   |-> files,
      subdirs |-> SelectSeq(<< "d1", "d2", "d3", "d4", "docs" >>,
                            LAMBDA n : join(d, n) \in all) ]

Md5Init ==
    \E len \in 0..(MaxDepthArg + 1), docs \in BOOLEAN,
       top \in Md5FileLists, below \in Md5FileLists :
       LET all == { ChainDir(k) : k \in 0..len }
                  \cup (IF docs THEN { << "docs" >> } ELSE {})
           files(d) == IF d = Root THEN top
                       ELSE IF d = ChainDir(1) THEN below ELSE << >>
       IN  /\ dirs = all \cup StaticDirs
           /\ config = [ d \in AllDirs \cup { ChainDir(k) : k \in 1..(MaxDepthArg + 1) }
                                 \cup { << "docs" >> } |->
                           IF d \in all THEN Md5Config(d, all, files(d))
                           ELSE NoConfig ]
           /\ mdisk = UNION { UNION { { << d, files(d)[i].filename >>,
                                        << d, files(d)[i].page >> } :
                                          i \in 1..Len(files(d)) } : d \in all }
           /\ content = [ slot \in FileSlots |-> NoFile ]
           /\ pages = {}
           /\ changes = << >>
           /\ status = "idle"
           /\ written = {}
           /\ runs = 0
           /\ scan \in [ max_depth : 0..MaxDepthArg,
                         fail_on_duplicates : BOOLEAN,
                         remove_duplicates : BOOLEAN ]
           /\ md5run = NoMd5Run

InitMd5 == Md5Init /\ SortIdle /\ BuildIdle /\ ErrIdle /\ PoolIdle /\ RestIdle

NextMd5 ==
    \/ md5_list_main /\ UNCHANGED << sortVars, buildVars, poolVars, restVars >>
    \/ catalog_main /\ UNCHANGED << sortVars, buildVars, poolVars, restVars >>

SpecMd5 == InitMd5 /\ [][NextMd5]_vars

\* The hashing of two files of any bytes.
HashInit ==
    /\ hfiles \in [ HashPaths -> ByteStrings ]
    /\ hjob = [ j \in DOMAIN HashCalls |-> NoHashJob ]

InitHash == TreeInit /\ SortIdle /\ BuildIdle /\ ErrIdle /\ PoolIdle /\ Md5Idle /\ HashInit /\ MergeIdle /\ TocIdle /\ LateIdle

NextHash ==
    \/ \E j \in DOMAIN HashCalls :
          HashOpens(j) /\ UNCHANGED << treeVars, sortVars, buildVars, errVars, poolVars, md5Vars, mergeVars, tocVars, lateVars >>
    \/ \E j \in DOMAIN HashCalls :
          HashReads(j) /\ UNCHANGED << treeVars, sortVars, buildVars, errVars, poolVars, md5Vars, mergeVars, tocVars, lateVars >>

SpecHash == InitHash /\ [][NextHash]_vars

\* One run of process_workspace over a workspace of a few files.
MergeInit ==
    /\ wsfiles \in UNION { [ 1..n -> WsKinds ] : n \in 0..MaxWsFiles }
    /\ wpc = WsIdle
    /\ wlog = << >>

InitMerge == TreeInit /\ SortIdle /\ BuildIdle /\ ErrIdle /\ PoolIdle /\ Md5Idle /\ HashIdle /\ MergeInit /\ TocIdle /\ LateIdle

NextMerge ==
    \/ process_workspace /\ UNCHANGED << treeVars, sortVars, buildVars, errVars, poolVars, md5Vars, hashVars, tocVars, lateVars >>
    \/ SkipsFile /\ UNCHANGED << treeVars, sortVars, buildVars, errVars, poolVars, md5Vars, hashVars, tocVars, lateVars >>
    \/ CopiesRepeated /\ UNCHANGED << treeVars, sortVars, buildVars, errVars, poolVars, md5Vars, hashVars, tocVars, lateVars >>
    \/ EntersRetryLoop /\ UNCHANGED << treeVars, sortVars, buildVars, errVars, poolVars, md5Vars, hashVars, tocVars, lateVars >>
    \/ Classifies /\ UNCHANGED << treeVars, sortVars, buildVars, errVars, poolVars, md5Vars, hashVars, tocVars, lateVars >>

SpecMerge == InitMerge /\ [][NextMerge]_vars

\* The files a config.yml lists: none, one, or two that share their page
\* (a.pdf and a.docx).
TocFiles == { << >>,
              << [ filename |-> "a.pdf", page |-> TocPage ] >>,
              << [ filename |-> "a.pdf", page |-> TocPage ],
                 [ filename |-> "a.docx", page |-> TocPage ] >> }

\* One run of the generator over an archive of a few directories: each has
\* no config.yml, an empty one, or one that lists its files and subdirectories.
TocConfigs(d) ==
    { TocNoConfig, TocEmptyConfig } \cup
    { [ kind |-> "config", files |-> f, subdirs |-> sub ] :
        f \in TocFiles, sub \in TocSubdirs(d) }

TocInit ==
    /\ tocconf \in { c \in [ TocDirs -> UNION { TocConfigs(d) : d \in TocDirs } ] :
                        /\ \A d \in TocDirs : c[d] \in TocConfigs(d)
                        /\ c[Root].kind = "config" }
    /\ tocignored \in SUBSET (TocDirs \ { Root })
    /\ ga \in { NoGa, [ loaded |-> TRUE, rows |-> GaRows ] }
    /\ toctemplate \in BOOLEAN
    /\ tocrun = NewGenerator

InitToc == TreeInit /\ SortIdle /\ BuildIdle /\ ErrIdle /\ PoolIdle /\ Md5Idle /\ HashIdle /\ MergeIdle /\ TocInit /\ LateIdle

NextToc ==
    \/ her_toc_main /\ UNCHANGED << treeVars, sortVars, buildVars, errVars, poolVars, md5Vars, hashVars, mergeVars, lateVars >>

SpecToc == InitToc /\ [][NextToc]_vars

\* The metadata addition on one directory, for every state of its pages and
\* every source of the links.
AddLists == { << "a.pdf" >>, << "n.md" >>, << "a.pdf", "n.md" >>, << "a.docx", "a.pdf" >> }

AddEntry(filename, source) ==
    [ name |-> splitext(filename)[1], filename |-> filename,
      page |-> IF endswith_md(filename) THEN filename
               ELSE page_filename(splitext(filename)[1]),
      source |-> source ]

AddInit ==
    /\ \E l \in AddLists, src \in [ 1..2 -> LinkSources ] :
          adfiles = [ i \in 1..Len(l) |-> AddEntry(l[i], src[i]) ]
    /\ adpages \in [ AddPages ->
                       { NoText } \cup
                       [ link : { LinkPlaceholder, "https://old" },
                         archived : { ArchivedPlaceholder, "2019-01-01" } ] ]
    /\ adruns = 0

InitAdd == TreeInit /\ SortIdle /\ BuildIdle /\ ErrIdle /\ PoolIdle /\ Md5Idle /\ HashIdle /\ MergeIdle /\ TocIdle /\ PageIdle /\ AddInit /\ TrIdle /\ RnIdle

NextAdd ==
    \/ update_files /\ UNCHANGED << treeVars, sortVars, buildVars, errVars, poolVars, md5Vars, hashVars, mergeVars, tocVars, pageVars, trVars, rnVars >>

SpecAdd == InitAdd /\ [][NextAdd]_vars

\* translate_files on every list that process_docs_directory can leave in
\* config.json: no path twice.
TranslateLists ==
    { l \in UNION { [ 1..n -> TranslatePaths ] : n \in 0..MaxTranslate } :
        \A i, j \in 1..Len(l) : i # j => l[i] # l[j] }

TrInit ==
    /\ trstart \in TranslateLists
    /\ trfiles = trstart
    /\ trsaved = trstart
    /\ trnext = 0
    /\ trdone = << >>
    /\ trfailed = FALSE
    /\ trpc = "loop"

InitTr == TreeInit /\ SortIdle /\ BuildIdle /\ ErrIdle /\ PoolIdle /\ Md5Idle /\ HashIdle /\ MergeIdle /\ TocIdle /\ PageIdle /\ AddIdle /\ TrInit /\ RnIdle

NextTr ==
    \/ TranslatesFile /\ UNCHANGED << treeVars, sortVars, buildVars, errVars, poolVars, md5Vars, hashVars, mergeVars, tocVars, pageVars, addVars, rnVars >>
    \/ TranslationFails /\ UNCHANGED << treeVars, sortVars, buildVars, errVars, poolVars, md5Vars, hashVars, mergeVars, tocVars, pageVars, addVars, rnVars >>
    \/ translate_files_returns /\ UNCHANGED << treeVars, sortVars, buildVars, errVars, poolVars, md5Vars, hashVars, mergeVars, tocVars, pageVars, addVars, rnVars >>

SpecTr == InitTr /\ [][NextTr]_vars

\* rename_files_in_directory on every directory of one file or of two.
RnInit ==
    /\ rnbefore \in { { m, n } : m, n \in RenameNames }
    /\ rndisk = { << n, n >> : n \in rnbefore }
    /\ rntodo = rnbefore
    /\ rnpc = "loop"

InitRn == TreeInit /\ SortIdle /\ BuildIdle /\ ErrIdle /\ PoolIdle /\ Md5Idle /\ HashIdle /\ MergeIdle /\ TocIdle /\ PageIdle /\ AddIdle /\ TrIdle /\ RnInit

NextRn ==
    \/ \E n \in RenameNames :
          KeepsName(n) /\ UNCHANGED << treeVars, sortVars, buildVars, errVars, poolVars, md5Vars, hashVars, mergeVars, tocVars, pageVars, addVars, trVars >>
    \/ \E n \in RenameNames :
          RenamesFile(n) /\ UNCHANGED << treeVars, sortVars, buildVars, errVars, poolVars, md5Vars, hashVars, mergeVars, tocVars, pageVars, addVars, trVars >>
    \/ \E n \in RenameNames :
          RenameRaises(n) /\ UNCHANGED << treeVars, sortVars, buildVars, errVars, poolVars, md5Vars, hashVars, mergeVars, tocVars, pageVars, addVars, trVars >>
    \/ rename_files_in_directory_returns /\ UNCHANGED << treeVars, sortVars, buildVars, errVars, poolVars, md5Vars, hashVars, mergeVars, tocVars, pageVars, addVars, trVars >>

SpecRn == InitRn /\ [][NextRn]_vars

\* The directory-level metadata: detection and directory-meta generation run,
\* and between the runs the curator edits a config.yml or makes a directory.
NextMeta ==
    \/ detect_entry_main /\ UNCHANGED << sortVars, buildVars, errVars, poolVars, md5Vars, restVars >>
    \/ \E d \in DynDirs \cup {Root} :
          update_directory_metadata(d) /\ UNCHANGED << sortVars, buildVars, errVars, poolVars, md5Vars, restVars >>
    \/ \E d \in DynDirs \cup {Root}, k \in CuratedFields, v \in { "", "mine", "[]", "[mine]" } :
          CuratorEdits(d, k, v) /\ UNCHANGED << sortVars, buildVars, errVars, poolVars, md5Vars, restVars >>
    \/ \E d \in DynDirs : MakeDir(d) /\ UNCHANGED << sortVars, buildVars, errVars, poolVars, md5Vars, restVars >>

SpecMeta == Init /\ [][NextMeta]_vars

\* The pages of one directory: gen_page runs again and again, and between the
\* runs a file changes.
PageLists ==
    { << "a.pdf" >>, << "a.pdf", "a.docx" >>, << "a.docx", "a.pdf" >>,
      << "a.pdf", "p.png" >>, << "n.md", "a.pdf" >>, << "a.pdf", "n.md" >> }

PageEntry(filename, page) ==
    [ name |-> splitext(filename)[1], filename |-> filename,
      type |-> get_file_type(filename), md5 |-> 1, page |-> page ]

PageInit ==
    /\ \E l \in PageLists, stale \in BOOLEAN :
          pgfiles = [ i \in 1..Len(l) |->
                        PageEntry(l[i], IF stale THEN "old_page.md" ELSE "") ]
    /\ pgpages \in [ PageNames -> { NoPage, [ filename |-> "a.pdf", md5 |-> 0 ] } ]
    /\ pgmd \in [ marker : BOOLEAN, appended : { 0 } ]
    /\ pgtemplates \in [ exist : SUBSET { PageTemplate, AdditionalTemplate },
                          marker : BOOLEAN ]
    /\ pgruns = 0

InitPage == TreeInit /\ SortIdle /\ BuildIdle /\ ErrIdle /\ PoolIdle /\ Md5Idle /\ HashIdle /\ MergeIdle /\ TocIdle /\ PageInit /\ AddIdle /\ TrIdle /\ RnIdle

NextPage ==
    \/ generate_pages_main /\ UNCHANGED << treeVars, sortVars, buildVars, errVars, poolVars, md5Vars, hashVars, mergeVars, tocVars, addVars, trVars, rnVars >>
    \/ \E i \in 1..Len(pgfiles) :
          FileRedetected(i) /\ UNCHANGED << treeVars, sortVars, buildVars, errVars, poolVars, md5Vars, hashVars, mergeVars, tocVars, addVars, trVars, rnVars >>

SpecPage == InitPage /\ [][NextPage]_vars

-----------------------------------------------------------------------------
(* Properties of entry detection.                                          *)

\* The directories a run from the base directory reaches.
Scanned == { d \in dirs : ~ is_ignored(d) /\ config[d].kind # "corrupt"
                          /\ (d = Root \/ is_listed_subdir(parent(d), basename(d))) }

\* A step that is a run of entry detection (every other step leaves
\* status "idle").
DetectStep == status' # "idle" /\ detect_entry_main

FilenamesOf(list) == { list[i].filename : i \in 1..Len(list) }

StaleEntry(d) ==
    \E i \in 1..Len(config[d].files) :
        LET e == config[d].files[i]
        IN  /\ << d, e.filename >> \in FileSlots
            /\ content[<< d, e.filename >>] # NoFile
            /\ e.md5 # calculate_md5(content[<< d, e.filename >>])

\* C1: merging a scan into the result of merging that same scan changes
\* nothing, merge_configs(merge_configs(old, new), new) = merge_configs(old,
\* new) for every config.yml and scan that occur, and a detection run on a tree
\* untouched since the last completed run leaves every config.yml as it was.
C1_MergeTwice ==
    \A d \in Scanned :
        LET new == detect_directory(d)
            once == merge_configs(config[d], new, d).config
        IN  merge_configs(once, new, d).config = once

C1_MergeIdempotent ==
    /\ [] C1_MergeTwice
    /\ [][ (runs >= 1 /\ detect_entry_main) => config' = config ]_vars

\* A second run on an untouched tree whose config.yml holds values that the
\* scan does not (an md5 kept from an earlier content).
C1_Witness ==
    /\ runs = 2
    /\ status = "done"
    /\ \E d \in written : StaleEntry(d)

\* C2: a detection run on a tree untouched since the last completed run
\* returns an empty change list.
C2_RepeatedRunReportsNothing ==
    runs >= 2 => changes = << >>

\* C18: after entry detection has run, the md5 and the size that config.yml
\* records for every listed file are those of the file on disk, also for a
\* file that had an entry before and whose content has changed since.
C18_ConfigMatchesDisk ==
    status = "done" =>
        \A d \in Scanned :
            \A i \in 1..Len(config[d].files) :
                LET e == config[d].files[i]
                    slot == << d, e.filename >>
                IN  slot \in FileSlots /\ content[slot] # NoFile
                        => /\ e.md5 = calculate_md5(content[slot])
                           /\ e.size = getsize(content[slot])

\* C3, for one directory: in the merged config every entry whose filename the
\* old config has keeps each non-empty old value and takes the scanned value
\* for every other field, and so does every directory-level field.
PrefersOld(old_fields, new_fields, merged) ==
    /\ \A k \in DOMAIN old_fields :
          Truthy(old_fields[k]) => k \in DOMAIN merged /\ merged[k] = old_fields[k]
    /\ \A k \in DOMAIN new_fields :
          ~ (k \in DOMAIN old_fields /\ Truthy(old_fields[k]))
              => k \in DOMAIN merged /\ merged[k] = new_fields[k]
    /\ DOMAIN merged \subseteq (DOMAIN old_fields) \cup (DOMAIN new_fields)

MergePrefersOld(old, new, merged) ==
    /\ PrefersOld(old.meta, new.meta, merged.meta)
    /\ \A i \in 1..Len(new.files), j \in 1..Len(old.files), k \in 1..Len(merged.files) :
          /\ old.files[j].filename = new.files[i].filename
          /\ merged.files[k].filename = new.files[i].filename
          => PrefersOld(old.files[j], new.files[i], merged.files[k])

C3_MergePrefersExisting ==
    [][ DetectStep =>
          \A d \in written' :
              config[d].kind = "ok" =>
                  MergePrefersOld(config[d], detect_directory(d), config'[d]) ]_vars

\* A completed run kept an old md5 over the scanned one and took the scanned
\* size where the old config had none (the file was empty).
C3_Witness ==
    /\ runs >= 1
    /\ status = "done"
    /\ \E i \in 1..Len(config[Root].files) :
          LET e == config[Root].files[i]
          IN  /\ e.filename = "a.pdf"
              /\ content[<< Root, "a.pdf" >>] = "x"
              /\ e.md5 = calculate_md5("")
              /\ e.size = getsize("x")
              /\ "page" \in DOMAIN e

\* C4: the changes a run records for one directory, and its merged files list.
ChangesFor(list, d) == SelectSeq(list, LAMBDA c : c.dir = d)

CountOf(list, c) == Cardinality({ i \in 1..Len(list) : list[i] = c })

Md5Of(list, f) == (CHOOSE e \in { list[i] : i \in 1..Len(list) } : e.filename = f).md5

ExactChanges(old_files, new_files, recorded, d) ==
    LET olds == FilenamesOf(old_files)
        news == FilenamesOf(new_files)
        expected ==
            { Change("Added", d, f) : f \in news \ olds }
            \cup { Change("Deleted", d, f) : f \in olds \ news }
            \cup { Change("Modified", d, f) :
                     f \in { g \in olds \cap news :
                               Md5Of(old_files, g) # Md5Of(new_files, g) } }
    IN  /\ \A c \in expected : CountOf(recorded, c) = 1
        /\ \A i \in 1..Len(recorded) : recorded[i] \in expected

SameFilenames(new_files, merged) ==
    /\ Len(merged) = Len(new_files)
    /\ \A i \in 1..Len(new_files) : merged[i].filename = new_files[i].filename

\* C4 as stated: a directory without a config.yml has no old filenames.
C4_ChangesByFilenameAndHash ==
    [][ DetectStep =>
          \A d \in written' :
              LET new == detect_directory(d)
              IN  /\ ExactChanges(config[d].files, new.files, ChangesFor(changes', d), d)
                  /\ SameFilenames(new.files, config'[d].files) ]_vars

\* C4 amended: the same for a directory that has a config.yml; for one that
\* has none the scan is taken as it is and nothing is recorded.
C4_ChangesWhenConfigExists ==
    [][ DetectStep =>
          \A d \in written' :
              LET new == detect_directory(d)
              IN  /\ config[d].kind = "ok" =>
                        ExactChanges(config[d].files, new.files, ChangesFor(changes', d), d)
                  /\ config[d].kind = "none" =>
                        ChangesFor(changes', d) = << >> /\ config'[d] = new
                  /\ SameFilenames(new.files, config'[d].files) ]_vars

\* One run recorded an addition, a modification and a deletion.
C4_Witness ==
    /\ status = "done"
    /\ \E i, j, k \in 1..Len(changes) :
          /\ changes[i].kind = "Added"
          /\ changes[j].kind = "Modified"
          /\ changes[k].kind = "Deleted"

-----------------------------------------------------------------------------
(* Properties of the natural sort.                                         *)

PlaceIn(list, place) == CHOOSE i \in 1..Len(list) : list[i].place = place

SameKey(a, b) ==
    KeyCompare(natural_sort_key(a), natural_sort_key(b)) = "eq"

\* C6: sorting the sorted list once more leaves its order as it is, and the
\* sort keeps the entries with equal keys in the order the config had them.
C6_SortIdempotentStable ==
    /\ sorted2.state # "none" => sorted2 = sorted1
    /\ sorted1.state = "ok" =>
          /\ Len(sorted1.list) = Len(names)
          /\ \A i \in 1..Len(names) :
                \E j \in 1..Len(sorted1.list) :
                    sorted1.list[j] = [ name |-> names[i], place |-> i ]
          /\ \A i, j \in 1..Len(names) :
                i < j /\ SameKey(names[i], names[j])
                    => PlaceIn(sorted1.list, i) < PlaceIn(sorted1.list, j)

\* Two different names with the same key were sorted twice.
C6_Witness ==
    /\ sorted2.state = "ok"
    /\ Len(names) = 2
    /\ names[1] # names[2]
    /\ SameKey(names[1], names[2])

\* C7: every maximal run of ASCII digits enters the key as its integer value,
\* every circled numeral as 1 to 10 and every other segment as its lower-cased
\* text; and of two names that are equal up to such a number, the one with the
\* smaller number sorts first.
IsAsciiRun(text) == text # << >> /\ \A i \in 1..Len(text) : text[i] \in AsciiDigits

AsciiValue(text) ==
    LET digit(c) == CHOOSE n \in 0..9 : AsciiDigits \cap {c} = { ToString(n) }
        F[ i \in 0..Len(text) ] == IF i = 0 THEN 0 ELSE 10 * F[i - 1] + digit(text[i])
    IN  F[Len(text)]

LowerCased(text) == [ i \in 1..Len(text) |-> IF text[i] = "X" THEN "x" ELSE text[i] ]

KeyAsClaimed(s) ==
    LET parts == re_split(s, 1, << >>)
        key == natural_sort_key(s)
    IN  \A i \in 1..Len(parts) :
            IF IsAsciiRun(parts[i])
            THEN key[i] = IntKey(AsciiValue(parts[i]))
            ELSE IF Len(parts[i]) = 1 /\ parts[i][1] \in CircledNumerals
            THEN key[i] = IntKey(CHOOSE n \in 1..10 :
                                   parts[i][1] = "(" \o ToString(n) \o ")")
            ELSE key[i] = StrKey(LowerCased(parts[i]))

\* The number that starts at place i of s, or -1 when none does.
NumberAt(s, i) ==
    IF i > Len(s) THEN -1
    ELSE IF s[i] \in CircledNumerals THEN numeral_map(s[i])
    ELSE IF s[i] \in AsciiDigits /\ (i = 1 \/ s[i - 1] \notin AsciiDigits)
    THEN AsciiValue(SubSeq(s, i, CHOOSE j \in i..Len(s) :
                                   /\ \A k \in i..j : s[k] \in AsciiDigits
                                   /\ (j = Len(s) \/ s[j + 1] \notin AsciiDigits)))
    ELSE -1

SmallerNumber(s, t) ==
    \E i \in 1..Len(s) :
        /\ i <= Len(t)
        /\ SubSeq(s, 1, i - 1) = SubSeq(t, 1, i - 1)
        /\ NumberAt(s, i) >= 0
        /\ NumberAt(t, i) >= 0
        /\ NumberAt(s, i) < NumberAt(t, i)

C7_NumbersSortAsIntegers ==
    sorted1.state # "none" =>
        /\ \A i \in 1..Len(names) : KeyAsClaimed(names[i])
        /\ \A i, j \in 1..Len(names) :
              SmallerNumber(names[i], names[j])
                  => /\ sorted1.state = "ok"
                     /\ PlaceIn(sorted1.list, i) < PlaceIn(sorted1.list, j)

\* The same for the names that hold no digit outside ASCII.
PlainName(s) == \A i \in 1..Len(s) : s[i] \notin { "F2", "^2" }

C7_PlainNamesSortAsIntegers ==
    (\A i \in 1..Len(names) : PlainName(names[i])) => C7_NumbersSortAsIntegers

\* C23: for every file name natural_sort_key gives a list with strings at
\* the even places and integers at the odd ones (counted from 0), so the sort
\* of the file entries of a directory never fails with a TypeError or a
\* ValueError, whatever digits the names hold.
C23_KeysComparable ==
    sorted1.state # "none" =>
        /\ \A i \in 1..Len(names) :
              LET key == natural_sort_key(names[i])
              IN  \A k \in 1..Len(key) :
                      key[k].t = IF k % 2 = 1 THEN "str" ELSE "int"
        /\ sorted1.state = "ok"

-----------------------------------------------------------------------------
(* Properties of the directory-level metadata.                             *)

\* C27: a non-empty description and non-empty tags of a config.yml are changed
\* by no run of entry detection and by no run of directory-meta generation.
C27_MetadataKept ==
    [][ (detect_entry_main \/ \E d \in DynDirs \cup {Root} : update_directory_metadata(d)) =>
          \A d \in dirs, k \in CuratedFields :
              config[d].kind = "ok" /\ Truthy(config[d].meta[k]) =>
                  config'[d].meta[k] = config[d].meta[k] ]_vars

-----------------------------------------------------------------------------
(* Properties of the metadata addition.                                    *)

\* C28: when update_files runs on an entry with a link whose page holds both
\* the link placeholder and the archived-date placeholder, the page holds
\* neither of them afterwards.
C28_BothFilled ==
    [][ adruns' = adruns + 1 =>
          \A i \in 1..Len(adfiles) :
              LET p == adfiles[i].page
              IN  /\ adfiles[i].source # "none"
                  /\ adpages[p].link = LinkPlaceholder
                  /\ adpages[p].archived = ArchivedPlaceholder
                  => /\ adpages'[p].link # LinkPlaceholder
                     /\ adpages'[p].archived # ArchivedPlaceholder ]_vars

-----------------------------------------------------------------------------
(* Properties of the translation.                                          *)

\* C29: when translate_files has returned and no subprocess failed, every
\* path of the list it began with was translated exactly once and the list
\* saved in config.json is empty.
TranslatedTimes(path) ==
    Cardinality({ k \in 1..Len(trdone) : trdone[k] = path })

C29_WholeListTranslated ==
    trpc = "returned" /\ ~ trfailed =>
        /\ \A i \in 1..Len(trstart) : TranslatedTimes(trstart[i]) = 1
        /\ trsaved = << >>

-----------------------------------------------------------------------------
(* Properties of the renaming.                                             *)

\* C30: when rename_files_in_directory has returned, the directory holds as
\* many files as before, and every file that was there is still there.
C30_NoFileLost ==
    rnpc = "returned" =>
        /\ Cardinality(rndisk) = Cardinality(rnbefore)
        /\ \A n \in rnbefore : \E f \in rndisk : f[2] = n

-----------------------------------------------------------------------------
(* Properties of page generation.                                          *)

\* C25: for files that are not markdown, a run of page generation never
\* rewrites a page that exists, and a second run on an unchanged directory
\* writes no page and leaves every page and the files of config.yml, the page
\* field of each entry included, as the first run left them.
C25_PagesKept ==
    [][ pgruns' = pgruns + 1 =>
          /\ \A p \in PageNames : pgpages[p] # NoPage => pgpages'[p] = pgpages[p]
          /\ pgruns >= 1 => pgpages' = pgpages /\ pgfiles' = pgfiles ]_vars

\* Two runs on an unchanged directory whose two entries share a_page.md; the
\* page is the first entry's, and the md5 on it is no longer the file's.
C25_Witness ==
    /\ pgruns = 2
    /\ Len(pgfiles) = 2
    /\ pgfiles[1].page = "a_page.md" /\ pgfiles[2].page = "a_page.md"
    /\ pgpages["a_page.md"] # NoPage
    /\ pgpages["a_page.md"].filename = pgfiles[1].filename
    /\ pgpages["a_page.md"].md5 # pgfiles[1].md5

-----------------------------------------------------------------------------
(* Properties of the build driver.                                         *)

\* The order of the stages of a full document build.
DocumentStages ==
    << "File renaming", "Entry detection", "Catalog generation",
       "MD5 list generation", "Visitor count update", "Page generation",
       "File meta generation", "Metadata addition",
       "Independence info generation", "Text embedding",
       "Directory meta generation" >>
    \o (IF args.generate_wordcloud THEN << "Wordcloud generation" >> ELSE << >>)
    \o << "Search index generation", Toc >>

Calls == SelectSeq(log, LAMBDA e : e.ev = "call")
Ended == SelectSeq(log, LAMBDA e : e.ev # "call" /\ e.ev # "clean")

\* C8: in a full document build the stages are called in the listed order,
\* each one only after the one before it returned, and the table of contents
\* only after every one of them returned.
C8_StagesInOrder ==
    args.type = "document" /\ args.script = "" =>
        /\ Len(Calls) <= Len(DocumentStages)
        /\ \A i \in 1..Len(Calls) : Calls[i].name = DocumentStages[i]
        /\ Len(Ended) \in { Len(Calls) - 1, Len(Calls) }
        /\ \A i \in 1..Len(Ended) : Ended[i].name = Calls[i].name
        /\ \A i \in 1..Len(log) :
              log[i].ev = "call" =>
                  \A j \in 1..(i - 1) :
                      log[j].ev = "call" =>
                          \E k \in (j + 1)..(i - 1) :
                              log[k] = Event("return", log[j].name)

\* A full document build with the wordcloud went through to the end.
C8_Witness ==
    /\ args.type = "document"
    /\ args.script = ""
    /\ args.generate_wordcloud
    /\ bpc = "returned"
    /\ log[Len(log)] = Event("return", Toc)

\* C24: when a stage raises during a full build the driver logs the error and
\* exits with status 1: nothing is done after it, no later stage is called
\* and the table of contents is not generated.
C24_FailingStageAborts ==
    args.script = "" =>
        \A k \in 1..Len(log) :
            log[k].ev = "raise" /\ log[k].name # Toc =>
                /\ k = Len(log)
                /\ bpc = "exit1"
                /\ \A j \in 1..Len(log) : log[j] # Event("call", Toc)
                /\ Len(Calls) < Len(scripts) =>
                      \A j \in 1..Len(log) :
                          log[j] # Event("call", scripts[Len(Calls) + 1])

\* A full build whose third stage raised after two stages had returned.
C24_Witness ==
    /\ args.script = ""
    /\ bpc = "exit1"
    /\ Len(Calls) = 3
    /\ log[Len(log)] = Event("raise", scripts[3])
    /\ \E k \in 1..Len(log) : log[k] = Event("return", scripts[2])

-----------------------------------------------------------------------------
(* Properties of the stages' error handling.                               *)

\* The directories the stages are to visit, and those whose config.yml does
\* not load.
Live == { d \in {Root} \cup DynDirs : d \in dirs }
Unreadable == { d \in Live : config[d].kind = "corrupt" }

PagesOf(d) ==
    { << d, config[d].files[i].page >> :
        i \in { j \in 1..Len(config[d].files) :
                  "page" \in DOMAIN config[d].files[j] } } \cap pages

DetectContinues ==
    status # "idle" => status = "done" /\ Live \subseteq written

CatalogContinues ==
    catalog.state # "none" =>
        /\ catalog.state = "returned"
        /\ \A d \in Live :
              config[d].kind = "ok" => \E e \in catalog.read : e[1] = d

LinksContinue ==
    links.state # "none" =>
        /\ links.state = "returned"
        /\ links.failed = Unreadable
        /\ links.configs = { d \in Live : config[d].kind = "ok" }
        /\ \A d \in links.configs :
              /\ PagesOf(d) \ badpages \subseteq links.updated
              /\ PagesOf(d) \cap badpages \subseteq links.pagefailed

-----------------------------------------------------------------------------
(* Properties of the worker pool.                                          *)

PageOf(i) == files_to_process[i].page

\* C10: no two workers that run at the same time have read the same page to
\* rewrite it, and when update_metadata has returned every page a worker wrote
\* holds what that worker wrote.
Rewriting == { i \in DOMAIN job : job[i] \in { "read", "generated" } }

C10_WorkersShareNoPage ==
    /\ \A i, j \in Rewriting : i # j => PageOf(i) # PageOf(j)
    /\ ppc = "returned" =>
          \A i \in wrote : pagetext[PageOf(i)] = files_to_process[i].filename

\* C26: metadata is requested at most once per page: only by a worker that
\* read the placeholder on the page, by no two workers for one page; a worker
\* that got nothing wrote nothing, and a page a worker wrote holds the
\* placeholder no longer.
Requested == { i \in DOMAIN job : job[i] \in { "generated", "nothing", "updated" } }

C26_GeneratedOncePerPage ==
    /\ \A i \in Requested : held[i] = Placeholder
    /\ \A i \in DOMAIN job : job[i] = "nothing" => i \notin wrote
    /\ \A i \in wrote : pagetext[files_to_process[i].page] # Placeholder
    /\ \A i, j \in Requested :
          i # j => files_to_process[i].page # files_to_process[j].page

\* C11: at every moment at most 5 calls of process_single_file are in
\* progress, every selected file is handed to one worker and no file to two,
\* and update_metadata returns only when every call has ended.
Finished == { "skipped", "nothing", "updated" }

-----------------------------------------------------------------------------
(* Properties of the MD5 list and of the two scanners.                     *)

\* The files the configs that were read list, in the order of the walk and
\* of each files list.
RECURSIVE CataloguedFrom(_)
CataloguedFrom(i) ==
    IF i > Len(walk)
    THEN << >>
    ELSE (IF walk[i] \in md5run.read
          THEN [ k \in 1..Len(config[walk[i]].files) |->
                   [ path |-> << walk[i], config[walk[i]].files[k].filename >>,
                     md5  |-> config[walk[i]].files[k].md5 ] ]
          ELSE << >>)
         \o CataloguedFrom(i + 1)

Catalogued == CataloguedFrom(1)

SharedMd5 ==
    \E i, j \in 1..Len(Catalogued) :
        /\ Catalogued[i].path # Catalogued[j].path
        /\ Catalogued[i].md5 = Catalogued[j].md5

\* C12: with fail_on_duplicates and without remove_duplicates the run exits
\* with an error exactly when two catalogued files at different paths have
\* one md5.
C12_DuplicatesFail ==
    /\ md5run.state # "none"
    /\ scan.fail_on_duplicates
    /\ ~ scan.remove_duplicates
    => (md5run.state = "exit1" <=> SharedMd5)

\* C13: with remove_duplicates, of the catalogued files with one md5 the
\* first one catalogued, and only that one, is on disk and in md5.yml.
FirstWith(m) == CHOOSE i \in 1..Len(Catalogued) :
                   /\ Catalogued[i].md5 = m
                   /\ \A j \in 1..(i - 1) : Catalogued[j].md5 # m

C13_FirstKept ==
    md5run.state = "returned" /\ scan.remove_duplicates =>
        \A i \in 1..Len(Catalogued) :
            LET f == Catalogued[i]
                in_list == \E k \in 1..Len(md5run.written) :
                              md5run.written[k].path = f.path
            IN  IF i = FirstWith(f.md5)
                THEN f.path \in mdisk /\ in_list
                ELSE f.path \notin mdisk /\ ~ in_list

\* C15: for one max depth d the catalog and the MD5 list read the config.yml
\* of the same directories, those at most d levels below the base directory
\* (docs, which the catalog leaves out by name, is not counted).
Counted(S) == { d \in S : d # << "docs" >> }

C15_SameDepth ==
    catalog.state = "returned" /\ md5run.state # "none" =>
        LET within == { d \in dirs : /\ config[d].kind = "ok"
                                     /\ Len(d) <= scan.max_depth }
        IN  /\ Counted({ e[1] : e \in catalog.read }) = Counted(within)
            /\ Counted(md5run.read) = Counted(within)

-----------------------------------------------------------------------------
(* Properties of the categories of the table of contents                   *)

\* The buckets that hold the entry at a place of the files list.
BucketsOf(i) ==
    { tb \in UNION { { << t, b >> : b \in DOMAIN categories[t] } : t \in DOMAIN categories } :
        \E k \in 1..Len(categories[tb[1]][tb[2]]) : categories[tb[1]][tb[2]][k].place = i }

\* How often the entry at a place is in a bucket.
TimesIn(i, t, b) ==
    Cardinality({ k \in 1..Len(categories[t][b]) : categories[t][b][k].place = i })

-----------------------------------------------------------------------------
(* Properties of the hashing of a file                                     *)

\* The digest of a content hashed in one piece.
DigestOf(bytes) == hexdigest(md5_update(md5_new, bytes))

Hashed(j) == hjob[j].pc = "returned"

\* C16: calculate_md5 gives the same digest for two files of identical
\* content and for the same file in every run, whatever the name and path
\* of the file and however its bytes fall into the chunks that are read: the
\* digest is that of the content hashed in one piece.
C16_Md5Stable ==
    \A j, k \in DOMAIN hjob :
        Hashed(j) /\ Hashed(k) =>
            /\ hjob[j].digest = DigestOf(hfiles[HashCalls[j].path])
            /\ hfiles[HashCalls[j].path] = hfiles[HashCalls[k].path]
               => hjob[j].digest = hjob[k].digest

\* Two files of different name and path with the same content, which ends
\* inside a chunk after a full one, were hashed, one of them twice.
C16_Witness ==
    /\ \A j \in DOMAIN hjob : Hashed(j)
    /\ DOMAIN hjob # {}
    /\ \E j, k \in DOMAIN hjob :
          /\ HashCalls[j].path # HashCalls[k].path
          /\ hfiles[HashCalls[j].path] = hfiles[HashCalls[k].path]
          /\ Len(hfiles[HashCalls[j].path]) > ChunkBytes
          /\ Len(hfiles[HashCalls[j].path]) % ChunkBytes # 0

-----------------------------------------------------------------------------
(* Properties of the merge of the workspace                                *)

\* The places of the log where something was done for a file.
AttemptsFor(f) ==
    { k \in 1..Len(wlog) : wlog[k].what = "classify" /\ wlog[k].file = f }
CopiesFor(f) ==
    { k \in 1..Len(wlog) : wlog[k].what \in { "copy", "copy to repeated" } /\ wlog[k].file = f }

-----------------------------------------------------------------------------
(* Properties of the table of contents                                     *)

\* The places of the log where the README.md of a directory was written.
ReadmeAt(d) == { k \in 1..Len(tocrun.log) :
                   tocrun.log[k].what = "README.md" /\ tocrun.log[k].dir = d }

IsPrefix(a, b) == Len(a) <= Len(b) /\ SubSeq(b, 1, Len(a)) = a

\* A directory the generator passes by: ignored, or without config.yml.
PassedBy(d) == (d # Root /\ d \in tocignored) \/ tocconf[d].kind = "none"

\* C19: process_directory writes the README.md of every subdirectory that
\* the config.yml of a directory lists before that of the directory itself,
\* and none for a directory that is ignored or has no config.yml, nor for
\* anything below such a directory.
C19_PostOrder ==
    /\ \A d \in TocDirs : \A k \in ReadmeAt(d) :
          \A i \in 1..Len(tocconf[d].subdirs) :
              LET sub == d \o << tocconf[d].subdirs[i] >>
              IN  /\ \A j \in ReadmeAt(sub) : j < k
                  /\ ~ PassedBy(sub) => ReadmeAt(sub) # {}
    /\ \A d \in TocDirs : Cardinality(ReadmeAt(d)) <= 1
    /\ \A d, e \in TocDirs : PassedBy(d) /\ IsPrefix(d, e) => ReadmeAt(e) = {}

\* A run wrote the README.md of the base directory, of books and of
\* books/c, and none for tmp, which has a config.yml and is ignored.
C19_Witness ==
    /\ tocrun.state = "done"
    /\ ReadmeAt(Root) # {} /\ ReadmeAt(<< "books" >>) # {}
    /\ ReadmeAt(<< "books", "c" >>) # {}
    /\ tocconf[Root].subdirs = << "tmp", "books" >>
    /\ tocconf[<< "tmp" >>].kind = "config"
    /\ << "tmp" >> \in tocignored

\* Where a link leads from a directory.
Resolves(link, from) ==
    IF link.up > Len(from) THEN << "..", "outside" >>
    ELSE SubSeq(from, 1, Len(from) - link.up) \o link.down

EntriesOf(page) == { i \in 1..Len(tocrun.all_entries) : tocrun.all_entries[i].link = page }

\* C21: after the process_directory calls of a run, each of which processes
\* the files of its directory twice, all_entries of the generator holds at
\* most one entry for every page path.
C21_NoPageTwice ==
    \A i, j \in 1..Len(tocrun.all_entries) :
        tocrun.all_entries[i].link = tocrun.all_entries[j].link => i = j

\* A run went through the base directory and books, both of which list two
\* files that share their page, and holds an entry for each of the two pages.
C21_Witness ==
    /\ tocrun.state = "done"
    /\ Len(tocconf[Root].files) = 2
    /\ Len(tocconf[<< "books" >>].files) = 2
    /\ EntriesOf(<< TocPage >>) # {}
    /\ EntriesOf(<< "books", TocPage >>) # {}

\* C22: the recent updates in the README.md of a directory are entries whose
\* page is in the directory or below it, never one of a subtree beside it
\* that was processed earlier in the run.
C22_RecentUpdatesOfSubtree ==
    \A k \in 1..Len(tocrun.log) :
        tocrun.log[k].what = "README.md" =>
            \A i \in 1..Len(tocrun.log[k].recent) :
                IsPrefix(tocrun.log[k].dir, tocrun.log[k].recent[i])

=============================================================================
